---------------------------- MODULE Spec2Model ----------------------------
(***************************************************************************)
(* The simulated network of src/madsim/src/net/network.rs (Network and its *)
(* private Endpoint) and the tag-matching Mailbox of                       *)
(* src/madsim/src/std/net/tcp.rs.                                          *)
(*                                                                         *)
(* Network keeps a map from addresses to shared Endpoint objects           *)
(* (Arc<Mutex<Endpoint>>).  A timer closure scheduled by Network::send     *)
(* holds its own reference to the destination object, so an object lives   *)
(* until the map and every timer have let go of it.  The objects are kept  *)
(* in `heap`; `endpoints` and the timers hold indices into it.             *)
(*                                                                         *)
(* The time source is outside the network: a closure is scheduled at       *)
(* now + latency with the latency drawn anew for every send from a range   *)
(* of more than one value, and sends are issued at any instant, so the     *)
(* scheduled closures can run in any order.  `timers` is the set of the    *)
(* closures not yet run and timer_fire runs any one of them.               *)
(*                                                                         *)
(* A oneshot channel is the record of its Receiver in `receivers`; the     *)
(* Sender half is the index of that record, stored in `registered`.        *)
(*                                                                         *)
(* The specifications share the variables:                                 *)
(*   Spec         the whole Network, with clogging and packet loss         *)
(*   PathSpec     the Network with the fault model left at its defaults    *)
(*   MailboxSpec  one Mailbox of tcp.rs                                    *)
(*   PortSpec     NetSim::next_local_port                                  *)
(*   BindSpec     the Endpoint facade of msim: bind, drop, reset           *)
(*   LinkSpec     clog_link, connect2 and disconnect2                      *)
(*   LoopSpec     loopback addresses on two nodes                          *)
(*   ConnSpec     connected Endpoints: connect, send, recv                 *)
(*   DataSpec     byte buffers through send_to and recv_from               *)
(*   SyncSpec     recv_from_raw_sync                                       *)
(*   ShimSpec     the syscall shim: socket, bind, close, sendmsg, recvmsg  *)
(***************************************************************************)
EXTENDS Integers, Sequences, FiniteSets, TLC

\* ---- bounds of the model ----
\* calls of Network::send
MaxSends == 2
\* calls of Network::recv under PathSpec, and under Spec
MaxRecvs == 2
MaxRecvsUnderFaults == 1
\* Endpoint objects ever allocated by Network::insert
MaxEndpoints == 2
\* frames delivered to, and recv calls on, the Mailbox of MailboxSpec
MaxFrames == 3
MaxMailboxRecvs == 3

\* calls of next_local_port per node, counted from the first call and from
\* the wrap of the counter
MaxPortCalls == 3

\* msim: calls of bind that succeed, of send and of recv
MaxBinds == 2
MaxSimSends == 1
MaxSimRecvs == 1
\* msim: calls of send under LinkSpec
MaxLinkSends == 1

\* msim: calls of send and of recv under LoopSpec
MaxLoopSends == 2
MaxLoopRecvs == 1

\* msim: Endpoints, calls of send and calls of recv under ConnSpec
MaxConnHandles == 3
MaxConnSends == 2
MaxConnRecvs == 1

\* msim: the longest message and buffer, and calls of send and of recv,
\* under DataSpec
MaxLen == 2
MaxDataSends == 1
MaxDataRecvs == 1

\* msim: calls of send and of recv under SyncSpec
MaxSyncSends == 2
MaxSyncRecvs == 1

\* the shim: file descriptors, calls of bind that succeed, and calls of
\* sendmsg that reach the network
MaxFds == 2
MaxShimBinds == 2
MaxShimSends == 1

Addrs == {1, 2}
Tags == {1, 2}
\* packet_loss_rate in percent: never, sometimes, always
Rates == {0, 50, 100}

VARIABLES
    endpoints,         \* Network.endpoints: address -> index in heap, 0 when absent
    heap,              \* the Endpoint objects ever allocated: [registered, msgs]
    clogged,           \* Network.clogged
    packet_loss_rate,  \* Network.config.packet_loss_rate
    msg_count,         \* Network.stat.msg_count
    timers,            \* scheduled closures not yet run: [ep, msg]
    receivers,         \* oneshot receivers handed out by recv, in creation order
    sent,              \* history: one entry per call of Network::send
    delivered,         \* history: one entry per message given to send/deliver
    sockets,           \* msim Network: <<node, address>> -> index in heap, 0 when absent
    clogged_links,     \* msim Network: the directed pairs <<a, b>> of clogged links
    next_ephemeral,    \* msim Network: node -> the last ephemeral port bind chose
    next_port_map,     \* NetSim.next_port_map: node -> counter, Vacant without entry
    handles,           \* the Endpoint structs ever made: [node, addr, open, peer]
    last_call,         \* history: the last call of the msim API and what it returned
    host_state,        \* NetSim.host_state.sockets: <<node, fd>> -> [ty, endpoint]
    host_fds           \* the descriptors dup(0) has opened in the process and close has not closed

\* the state of msim's NetSim, which madsim's Network and tcp.rs do not have
simvars == <<sockets, clogged_links, next_ephemeral, next_port_map, handles,
             last_call, host_state, host_fds>>

vars == <<endpoints, heap, clogged, packet_loss_rate, msg_count, timers,
          receivers, sent, delivered, simvars>>

\* ---- data ----

\* msim: the nodes, and the IP addresses: node n has the IP NodeIp(n)
Nodes == {1, 2, 3}
NodeIp(n) == n
Unspecified == 0
Localhost == 127
\* a SocketAddr of msim is [ip, port]; port 0 asks bind for an ephemeral port
SockAddr(ip, port) == [ip |-> ip, port |-> port]
\* a u32 is kept as <<high, low>>, its two 16-bit halves
Half == 2 ^ 16
U32(n) == <<n \div Half, n % Half>>
\* the u32 that is k below 2^32, for 1 <= k <= Half
U32Below(k) == <<Half - 1, Half - k>>
U32Less(x, y) == x[1] < y[1] \/ (x[1] = y[1] /\ x[2] < y[2])
\* u32::wrapping_add(1)
wrapping_add_1(x) ==
    IF x[2] < Half - 1 THEN <<x[1], x[2] + 1>>
    ELSE IF x[1] < Half - 1 THEN <<x[1] + 1, 0>>
    ELSE <<0, 0>>
\* no entry for the node in NetSim.next_port_map
Vacant == <<>>
\* Option::None, of Endpoint.peer and SocketState.endpoint
None == [none |-> TRUE]

\* Simulator::new of NetSim, and the empty msim Network in it
NetSim_new ==
    /\ sockets = <<>>
    /\ clogged_links = {}
    /\ next_ephemeral = [n \in Nodes |-> 0]
    /\ next_port_map = [n \in Nodes |-> Vacant]
    /\ handles = <<>>
    /\ last_call = [op |-> "none"]
    /\ host_state = <<>>
    /\ host_fds = {}

\* struct Message; data is the payload, which the model makes unique per send
NoMsg == [tag |-> 0, data |-> 0, from |-> 0]

\* #[derive(Default)] struct Endpoint
NewEndpoint == [registered |-> <<>>, msgs |-> <<>>]

\* Iterator::position over a Vec whose items carry a tag; 0 stands for None and
\* indices are 1-based
position(s, tag) ==
    IF \E i \in 1..Len(s) : s[i].tag = tag
    THEN CHOOSE i \in 1..Len(s) :
             s[i].tag = tag /\ \A j \in 1..(i - 1) : s[j].tag # tag
    ELSE 0

\* Vec::swap_remove: the last element takes the place of the removed one
swap_remove(s, i) ==
    IF i = Len(s)
    THEN SubSeq(s, 1, Len(s) - 1)
    ELSE SubSeq(s, 1, i - 1) \o <<s[Len(s)]>> \o SubSeq(s, i + 1, Len(s) - 1)

\* the receivers whose Receiver half still exists and has no value yet
Live(rx) == {r \in 1..Len(rx) : rx[r].state = "waiting"}

\* ---- network.rs: the private Endpoint ----

\* Endpoint::send that hands the message to the waiter and keeps it pending too
Endpoint_send_and_keep(e, msg, live) ==
    LET idx == position(e.registered, msg.tag) IN
    IF idx # 0
    THEN [ep |-> [e EXCEPT !.registered = swap_remove(@, idx),
                           !.msgs = Append(@, msg)],
          to |-> IF e.registered[idx].tx \in live THEN e.registered[idx].tx ELSE 0]
    ELSE [ep |-> [e EXCEPT !.msgs = Append(@, msg)], to |-> 0]

\* Endpoint::send: the first registered sender with the tag is removed and
\* given the message; the result of oneshot send is ignored, so `to` is 0
\* (and the message gone) when that receiver was dropped
Endpoint_send(e, msg, live) ==
    LET idx == position(e.registered, msg.tag) IN
    IF idx # 0
    THEN [ep |-> [e EXCEPT !.registered = swap_remove(@, idx)],
          to |-> IF e.registered[idx].tx \in live THEN e.registered[idx].tx ELSE 0]
    ELSE [ep |-> [e EXCEPT !.msgs = Append(@, msg)], to |-> 0]

\* Endpoint::recv taking the oldest pending message whatever its tag
Endpoint_recv_any_tag(e, tag, tx) ==
    IF Len(e.msgs) # 0
    THEN [ep |-> [e EXCEPT !.msgs = swap_remove(@, 1)], got |-> e.msgs[1]]
    ELSE [ep |-> [e EXCEPT !.registered = Append(@, [tag |-> tag, tx |-> tx])],
          got |-> NoMsg]

\* Endpoint::recv looking at the oldest pending message only
Endpoint_recv_front_only(e, tag, tx) ==
    IF Len(e.msgs) # 0 /\ e.msgs[1].tag = tag
    THEN [ep |-> [e EXCEPT !.msgs = swap_remove(@, 1)], got |-> e.msgs[1]]
    ELSE [ep |-> [e EXCEPT !.registered = Append(@, [tag |-> tag, tx |-> tx])],
          got |-> NoMsg]

\* Endpoint::recv with tx the sender half of the new channel: a pending
\* message with the tag is taken, otherwise the sender is registered
Endpoint_recv(e, tag, tx) ==
    LET idx == position(e.msgs, tag) IN
    IF idx # 0
    THEN [ep |-> [e EXCEPT !.msgs = swap_remove(@, idx)], got |-> e.msgs[idx]]
    ELSE [ep |-> [e EXCEPT !.registered = Append(@, [tag |-> tag, tx |-> tx])],
          got |-> NoMsg]

\* ---- tcp.rs: Mailbox ----

\* the while loop of Mailbox::deliver from index i on: a sender with the tag
\* is removed and tried; when its receiver is gone the message comes back and
\* the scan goes on at the same index; with no taker the message is saved
RECURSIVE deliver_from(_, _, _, _)
deliver_from(mb, msg, live, i) ==
    IF i <= Len(mb.registered)
    THEN IF msg.tag = mb.registered[i].tag
         THEN IF mb.registered[i].tx \in live
              THEN [ep |-> [mb EXCEPT !.registered = swap_remove(@, i)],
                    to |-> mb.registered[i].tx]
              ELSE deliver_from([mb EXCEPT !.registered = swap_remove(@, i)],
                                msg, live, i)
         ELSE deliver_from(mb, msg, live, i + 1)
    ELSE [ep |-> [mb EXCEPT !.msgs = Append(@, msg)], to |-> 0]

\* Mailbox::deliver giving up after the first sender with the tag
Mailbox_deliver_once(mb, msg, live) ==
    LET idx == position(mb.registered, msg.tag) IN
    IF idx # 0
    THEN [ep |-> [mb EXCEPT !.registered = swap_remove(@, idx)],
          to |-> IF mb.registered[idx].tx \in live THEN mb.registered[idx].tx ELSE 0]
    ELSE [ep |-> [mb EXCEPT !.msgs = Append(@, msg)], to |-> 0]

\* Mailbox::deliver
Mailbox_deliver(mb, msg, live) == deliver_from(mb, msg, live, 1)

\* Mailbox::recv with tx the sender half of the new channel
Mailbox_recv(mb, tag, tx) ==
    LET idx == position(mb.msgs, tag) IN
    IF idx # 0
    THEN [ep |-> [mb EXCEPT !.msgs = swap_remove(@, idx)], got |-> mb.msgs[idx]]
    ELSE [ep |-> [mb EXCEPT !.registered = Append(@, [tag |-> tag, tx |-> tx])],
          got |-> NoMsg]

\* ---- reference counting of the Endpoint objects ----

Referenced(e, eps, tms) ==
    (\E a \in Addrs : eps[a] = e) \/ (\E t \in tms : t.ep = e)

\* dropping an Endpoint drops its registered senders and its messages
ReleaseHeap(h, eps, tms) ==
    [e \in 1..Len(h) |-> IF Referenced(e, eps, tms) THEN h[e] ELSE NewEndpoint]

\* a receiver whose sender was dropped unsent resolves to Canceled
ReleaseReceivers(rx, h, eps, tms) ==
    [r \in 1..Len(rx) |->
        IF /\ rx[r].state = "waiting"
           /\ \E e \in 1..Len(h) :
                  /\ ~Referenced(e, eps, tms)
                  /\ \E i \in 1..Len(h[e].registered) : h[e].registered[i].tx = r
        THEN [rx[r] EXCEPT !.state = "canceled"]
        ELSE rx[r]]

\* ---- network.rs: Network ----

\* Network::new
Init ==
    /\ endpoints = [a \in Addrs |-> 0]
    /\ heap = <<>>
    /\ clogged = {}
    /\ packet_loss_rate = 0
    /\ msg_count = 0
    /\ timers = {}
    /\ receivers = <<>>
    /\ sent = <<>>
    /\ delivered = <<>>
    /\ NetSim_new

\* Network::update_config
update_config(rate) ==
    /\ rate # packet_loss_rate
    /\ packet_loss_rate' = rate
    /\ UNCHANGED <<endpoints, heap, clogged, msg_count, timers, receivers, sent,
                   delivered>>
    /\ UNCHANGED simvars

\* Network::insert
insert(target) ==
    /\ endpoints[target] = 0
    /\ Len(heap) < MaxEndpoints
    /\ heap' = Append(heap, NewEndpoint)
    /\ endpoints' = [endpoints EXCEPT ![target] = Len(heap) + 1]
    /\ UNCHANGED <<clogged, packet_loss_rate, msg_count, timers, receivers, sent,
                   delivered>>
    /\ UNCHANGED simvars

\* Network::remove that leaves the address in the clogged set
remove_keeping_clog(target) ==
    /\ endpoints[target] # 0 \/ target \in clogged
    /\ endpoints' = [endpoints EXCEPT ![target] = 0]
    /\ heap' = ReleaseHeap(heap, endpoints', timers)
    /\ receivers' = ReleaseReceivers(receivers, heap, endpoints', timers)
    /\ UNCHANGED <<clogged, packet_loss_rate, msg_count, timers, sent,
                   delivered>>
    /\ UNCHANGED simvars

\* Network::remove
remove(target) ==
    /\ endpoints[target] # 0 \/ target \in clogged
    /\ endpoints' = [endpoints EXCEPT ![target] = 0]
    /\ clogged' = clogged \ {target}
    /\ heap' = ReleaseHeap(heap, endpoints', timers)
    /\ receivers' = ReleaseReceivers(receivers, heap, endpoints', timers)
    /\ UNCHANGED <<packet_loss_rate, msg_count, timers, sent, delivered>>
    /\ UNCHANGED simvars

\* Network::clog
clog(target) ==
    /\ endpoints[target] # 0
    /\ target \notin clogged
    /\ clogged' = clogged \cup {target}
    /\ UNCHANGED <<endpoints, heap, packet_loss_rate, msg_count, timers,
                   receivers, sent, delivered>>
    /\ UNCHANGED simvars

\* Network::unclog
unclog(target) ==
    /\ endpoints[target] # 0
    /\ target \in clogged
    /\ clogged' = clogged \ {target}
    /\ UNCHANGED <<endpoints, heap, packet_loss_rate, msg_count, timers,
                   receivers, sent, delivered>>
    /\ UNCHANGED simvars

\* RandomHandle::should_fault: the outcomes a Bernoulli draw with the rate has
should_fault(rate) ==
    IF rate = 0 THEN {FALSE} ELSE IF rate = 100 THEN {TRUE} ELSE BOOLEAN

\* || evaluates should_fault only when the conditions before it are false
Draws(src, dst) ==
    IF endpoints[dst] = 0 \/ src \in clogged \/ dst \in clogged
    THEN {FALSE}
    ELSE should_fault(packet_loss_rate)

\* drop conditions other than that of Network::send: any clog at all drops,
\* a fault drawn does not drop, a clogged destination does not drop
send_dropped_any_clog(src, dst, fault) ==
    \/ endpoints[dst] = 0
    \/ clogged # {}
    \/ fault

send_dropped_no_fault(src, dst, fault) ==
    \/ endpoints[dst] = 0
    \/ src \in clogged
    \/ dst \in clogged

send_dropped_src_only(src, dst, fault) ==
    \/ endpoints[dst] = 0
    \/ src \in clogged
    \/ fault

\* the drop condition of Network::send
send_dropped(src, dst, fault) ==
    \/ endpoints[dst] = 0
    \/ src \in clogged
    \/ dst \in clogged
    \/ fault

\* Network::send counting the call before it tests the drop condition
send_counting_first(src, dst, tag, fault) ==
    /\ Len(sent) < MaxSends
    /\ endpoints[src] # 0
    /\ sent' = Append(sent,
           [src |-> src, dst |-> dst, tag |-> tag, ep |-> endpoints[dst],
            clog |-> src \in clogged \/ dst \in clogged,
            fault |-> fault])
    /\ msg_count' = msg_count + 1
    /\ IF send_dropped(src, dst, fault)
       THEN UNCHANGED timers
       ELSE timers' = timers \cup
                   {[ep |-> endpoints[dst],
                     msg |-> [tag |-> tag, data |-> Len(sent) + 1, from |-> src]]}
    /\ UNCHANGED <<endpoints, heap, clogged, packet_loss_rate, receivers,
                   delivered>>
    /\ UNCHANGED simvars

\* Network::send; fault is the outcome of should_fault.  The history entry
\* records the call and what held when it was made: the object the
\* destination was bound to (0 for none), whether either end was clogged, and
\* the fault drawn.
send(src, dst, tag, fault) ==
    /\ Len(sent) < MaxSends
    /\ endpoints[src] # 0
    /\ sent' = Append(sent,
           [src |-> src, dst |-> dst, tag |-> tag, ep |-> endpoints[dst],
            clog |-> src \in clogged \/ dst \in clogged,
            fault |-> fault])
    /\ IF send_dropped(src, dst, fault)
       THEN UNCHANGED <<timers, msg_count>>
       ELSE /\ timers' = timers \cup
                   {[ep |-> endpoints[dst],
                     msg |-> [tag |-> tag, data |-> Len(sent) + 1, from |-> src]]}
            /\ msg_count' = msg_count + 1
    /\ UNCHANGED <<endpoints, heap, clogged, packet_loss_rate, receivers,
                   delivered>>
    /\ UNCHANGED simvars

\* Network::recv.  The entry made in receivers records the call: the address,
\* the tag, the Endpoint object the address was bound to (0 for none) and the
\* outcome.  self.endpoints[&dst] panics when the address has no entry.
recv(dst, tag) ==
    /\ IF endpoints[dst] = 0
       THEN /\ receivers' = Append(receivers,
                   [addr |-> dst, tag |-> tag, ep |-> 0, state |-> "panicked",
                    msg |-> NoMsg])
            /\ UNCHANGED heap
       ELSE LET e == endpoints[dst]
                r == Endpoint_recv(heap[e], tag, Len(receivers) + 1)
            IN /\ heap' = [heap EXCEPT ![e] = r.ep]
               /\ receivers' = Append(receivers,
                      [addr |-> dst, tag |-> tag, ep |-> e,
                       state |-> IF r.got = NoMsg THEN "waiting" ELSE "ready",
                       msg |-> r.got])
    /\ UNCHANGED <<endpoints, clogged, packet_loss_rate, msg_count, timers, sent,
                   delivered>>
    /\ UNCHANGED simvars

\* the caller of recv drops the oneshot::Receiver (a timeout, a cancelled task)
drop_receiver(r) ==
    /\ receivers[r].state = "waiting"
    /\ receivers' = [receivers EXCEPT ![r].state = "dropped"]
    /\ UNCHANGED <<endpoints, heap, clogged, packet_loss_rate, msg_count, timers,
                   sent, delivered>>
    /\ UNCHANGED simvars

\* a closure that looks the destination address up when it runs, instead of
\* holding the Endpoint object the address had when the message was sent
timer_fire_by_addr(t) ==
    /\ LET e == endpoints[sent[t.msg.data].dst]
           r == Endpoint_send(heap[IF e = 0 THEN t.ep ELSE e], t.msg,
                              Live(receivers))
           h == IF e = 0 THEN heap ELSE [heap EXCEPT ![e] = r.ep]
           rx == IF e = 0 \/ r.to = 0 THEN receivers
                 ELSE [receivers EXCEPT ![r.to].state = "ready",
                                        ![r.to].msg = t.msg]
       IN /\ timers' = timers \ {t}
          /\ heap' = ReleaseHeap(h, endpoints, timers')
          /\ receivers' = ReleaseReceivers(rx, h, endpoints, timers')
          /\ delivered' = Append(delivered, [ep |-> t.ep, msg |-> t.msg])
    /\ UNCHANGED <<endpoints, clogged, packet_loss_rate, msg_count, sent>>
    /\ UNCHANGED simvars

\* the closure given to add_timer in Network::send runs
timer_fire(t) ==
    /\ LET r == Endpoint_send(heap[t.ep], t.msg, Live(receivers))
           h == [heap EXCEPT ![t.ep] = r.ep]
           rx == IF r.to = 0 THEN receivers
                 ELSE [receivers EXCEPT ![r.to].state = "ready",
                                        ![r.to].msg = t.msg]
       IN /\ timers' = timers \ {t}
          /\ heap' = ReleaseHeap(h, endpoints, timers')
          /\ receivers' = ReleaseReceivers(rx, h, endpoints, timers')
          /\ delivered' = Append(delivered, [ep |-> t.ep, msg |-> t.msg])
    /\ UNCHANGED <<endpoints, clogged, packet_loss_rate, msg_count, sent>>
    /\ UNCHANGED simvars

\* the whole Network
Next ==
    \/ \E rate \in Rates : update_config(rate)
    \/ \E a \in Addrs : insert(a)
    \/ \E a \in Addrs : remove(a)
    \/ \E a \in Addrs : clog(a)
    \/ \E a \in Addrs : unclog(a)
    \/ \E src \in Addrs, dst \in Addrs, tag \in Tags :
           \E fault \in Draws(src, dst) : send(src, dst, tag, fault)
    \/ \E dst \in Addrs, tag \in Tags :
           Len(receivers) < MaxRecvsUnderFaults /\ recv(dst, tag)
    \/ \E r \in 1..Len(receivers) : drop_receiver(r)
    \/ \E t \in timers : timer_fire(t)

Spec == Init /\ [][Next]_vars

\* the Network while nothing is clogged and the loss rate stays 0
PathNext ==
    \/ \E a \in Addrs : insert(a)
    \/ \E a \in Addrs : remove(a)
    \/ \E src \in Addrs, dst \in Addrs, tag \in Tags :
           send(src, dst, tag, FALSE)
    \/ \E dst \in Addrs, tag \in Tags :
           Len(receivers) < MaxRecvs /\ recv(dst, tag)
    \/ \E r \in 1..Len(receivers) : drop_receiver(r)
    \/ \E t \in timers : timer_fire(t)

PathSpec == Init /\ [][PathNext]_vars

\* ---- tcp.rs: one Endpoint's Mailbox, heap[1] ----

\* Inner::default: an empty Mailbox; the Network part stays as constructed
MailboxInit ==
    /\ endpoints = [a \in Addrs |-> 0]
    /\ heap = <<NewEndpoint>>
    /\ clogged = {}
    /\ packet_loss_rate = 0
    /\ msg_count = 0
    /\ timers = {}
    /\ receivers = <<>>
    /\ sent = <<>>
    /\ delivered = <<>>
    /\ NetSim_new

\* recver_task of setup_connection: a frame with the tag has arrived from peer
frame_arrives(peer, tag) ==
    /\ Len(delivered) < MaxFrames
    /\ LET msg == [tag |-> tag, data |-> Len(delivered) + 1, from |-> peer]
           r == Mailbox_deliver(heap[1], msg, Live(receivers))
       IN /\ heap' = [heap EXCEPT ![1] = r.ep]
          /\ receivers' = IF r.to = 0 THEN receivers
                          ELSE [receivers EXCEPT ![r.to].state = "ready",
                                                 ![r.to].msg = msg]
          /\ delivered' = Append(delivered, [ep |-> 1, msg |-> msg])
    /\ UNCHANGED <<endpoints, clogged, packet_loss_rate, msg_count, timers, sent>>
    /\ UNCHANGED simvars

\* Endpoint::recv_from_raw of tcp.rs up to its await
mailbox_recv(tag) ==
    /\ Len(receivers) < MaxMailboxRecvs
    /\ LET r == Mailbox_recv(heap[1], tag, Len(receivers) + 1)
       IN /\ heap' = [heap EXCEPT ![1] = r.ep]
          /\ receivers' = Append(receivers,
                 [addr |-> 0, tag |-> tag, ep |-> 1,
                  state |-> IF r.got = NoMsg THEN "waiting" ELSE "ready",
                  msg |-> r.got])
    /\ UNCHANGED <<endpoints, clogged, packet_loss_rate, msg_count, timers, sent,
                   delivered>>
    /\ UNCHANGED simvars

MailboxNext ==
    \/ \E peer \in Addrs, tag \in Tags : frame_arrives(peer, tag)
    \/ \E tag \in Tags : mailbox_recv(tag)
    \/ \E r \in 1..Len(receivers) : drop_receiver(r)

MailboxSpec == MailboxInit /\ [][MailboxNext]_vars

\* ---- mod.rs: NetSim, the port counters ----

\* NetSim::next_local_port (Endpoint::allocate_local_port calls it with the
\* endpoint's node): the Vacant arm inserts and returns 1, the Occupied arm
\* does wrapping_add(1) on the u32 and returns the new value
next_local_port(node) ==
    /\ IF next_port_map[node] = Vacant THEN TRUE
       ELSE \/ U32Less(next_port_map[node], U32(MaxPortCalls))
            \/ ~U32Less(next_port_map[node], U32Below(MaxPortCalls))
    /\ LET cur == next_port_map[node]
           new == IF cur = Vacant THEN U32(1) ELSE wrapping_add_1(cur)
       IN /\ next_port_map' = [next_port_map EXCEPT ![node] = new]
          /\ last_call' = [op |-> "next_local_port", node |-> node, ret |-> new]
    /\ UNCHANGED <<host_state, host_fds,
                   endpoints, heap, clogged, packet_loss_rate, msg_count, timers,
                   receivers, sent, delivered>>
    /\ UNCHANGED <<sockets, clogged_links, next_ephemeral, handles>>

\* a NetSim on which each node has made no call yet, or so many that its
\* counter is within MaxPortCalls of the largest u32
PortInit ==
    /\ endpoints = [a \in Addrs |-> 0]
    /\ heap = <<>>
    /\ clogged = {}
    /\ packet_loss_rate = 0
    /\ msg_count = 0
    /\ timers = {}
    /\ receivers = <<>>
    /\ sent = <<>>
    /\ delivered = <<>>
    /\ sockets = <<>>
    /\ clogged_links = {}
    /\ next_ephemeral = [n \in Nodes |-> 0]
    /\ next_port_map \in
           [Nodes -> {Vacant} \cup {U32Below(k) : k \in 1..MaxPortCalls}]
    /\ handles = <<>>
    /\ last_call = [op |-> "none"]
    /\ host_state = <<>>
    /\ host_fds = {}

PortNext == \E node \in Nodes : next_local_port(node)

PortSpec == PortInit /\ [][PortNext]_vars

\* ---- msim's Network: the endpoint table ----

\* the node that owns the mailbox a send from src_node to dst means: a
\* loopback address is scoped to the sender's node, any other address belongs
\* to the node with that IP (0 when no node has it)
owner(src_node, dst) ==
    IF dst.ip = Localhost THEN src_node
    ELSE IF \E n \in Nodes : NodeIp(n) = dst.ip
         THEN CHOOSE n \in Nodes : NodeIp(n) = dst.ip
         ELSE 0

\* the mailbox of <<node, addr>>, 0 when there is none
mailbox_of(node, addr) ==
    IF <<node, addr>> \in DOMAIN sockets THEN sockets[<<node, addr>>] ELSE 0

\* Network::bind(node, requested): the IP is checked and normalized, the port
\* resolved, the address refused when it has a mailbox, and else a fresh
\* mailbox installed.  The result is the outcome, the resolved address and
\* the table after the call.
Network_bind(node, req) ==
    IF req.ip \notin {Unspecified, Localhost, NodeIp(node)}
    THEN [ret |-> "AddrNotAvailable", addr |-> req, sockets |-> sockets,
          heap |-> heap, next_ephemeral |-> next_ephemeral]
    ELSE LET ip == IF req.ip = Unspecified THEN NodeIp(node) ELSE req.ip
             port == IF req.port = 0 THEN next_ephemeral[node] + 1
                     ELSE req.port
             addr == SockAddr(ip, port)
             ne == IF req.port = 0
                   THEN [next_ephemeral EXCEPT ![node] = port]
                   ELSE next_ephemeral
         IN IF <<node, addr>> \in DOMAIN sockets
            THEN [ret |-> "AddrInUse", addr |-> addr, sockets |-> sockets,
                  heap |-> heap, next_ephemeral |-> ne]
            ELSE [ret |-> "Ok", addr |-> addr,
                  sockets |-> sockets @@ (<<node, addr>> :> Len(heap) + 1),
                  heap |-> Append(heap, NewEndpoint), next_ephemeral |-> ne]

\* Network::close for each of the keys: the mailbox leaves the table, its
\* pending messages are dropped, and so are the senders parked in it, which
\* resolves their receivers as Canceled
Network_close_all(keys) ==
    LET gone == {sockets[k] : k \in keys \cap DOMAIN sockets} IN
    [sockets |-> [k \in DOMAIN sockets \ keys |-> sockets[k]],
     heap |-> [e \in 1..Len(heap) |->
                  IF e \in gone THEN NewEndpoint ELSE heap[e]],
     receivers |-> [r \in 1..Len(receivers) |->
                       IF /\ receivers[r].state = "waiting"
                          /\ receivers[r].ep \in gone
                       THEN [receivers[r] EXCEPT !.state = "canceled"]
                       ELSE receivers[r]]]

\* Network::close(node, addr)
Network_close(node, addr) == Network_close_all({<<node, addr>>})

\* Network::reset_node(node): close for every address the node owns, and the
\* node leaves clogged_nodes and both sides of clogged_links
Network_reset_node(node) ==
    [table |-> Network_close_all({k \in DOMAIN sockets : k[1] = node}),
     clogged |-> clogged \ {node},
     clogged_links |-> {l \in clogged_links : l[1] # node /\ l[2] # node}]

\* ---- msim's Network: mailboxes and admission ----

\* removal from a list that keeps the order of the rest
remove_at(s, i) == SubSeq(s, 1, i - 1) \o SubSeq(s, i + 1, Len(s))

\* deliver: the first waiter with the tag is removed and tried; when its
\* receiver was dropped the next one is; with no taker the message is pending
RECURSIVE sim_deliver(_, _, _)
sim_deliver(mb, msg, live) ==
    LET idx == position(mb.registered, msg.tag) IN
    IF idx = 0 THEN [ep |-> [mb EXCEPT !.msgs = Append(@, msg)], to |-> 0]
    ELSE IF mb.registered[idx].tx \in live
         THEN [ep |-> [mb EXCEPT !.registered = remove_at(@, idx)],
               to |-> mb.registered[idx].tx]
         ELSE sim_deliver([mb EXCEPT !.registered = remove_at(@, idx)],
                          msg, live)

\* recv: the first pending message with the tag, else a new waiter
sim_mailbox_recv(mb, tag, tx) ==
    LET idx == position(mb.msgs, tag) IN
    IF idx # 0
    THEN [ep |-> [mb EXCEPT !.msgs = remove_at(@, idx)], got |-> mb.msgs[idx]]
    ELSE [ep |-> [mb EXCEPT !.registered = Append(@, [tag |-> tag, tx |-> tx])],
          got |-> NoMsg]

\* recv_sync: the first pending message with the tag, or None, for which
\* NoMsg stands; no waiter is registered
sim_recv_sync(mb, tag) ==
    LET idx == position(mb.msgs, tag) IN
    IF idx # 0
    THEN [ep |-> [mb EXCEPT !.msgs = remove_at(@, idx)], got |-> mb.msgs[idx]]
    ELSE [ep |-> mb, got |-> NoMsg]

\* admission of Network::send: the destination has a mailbox, and the send
\* stays in the node or meets no clogged node, no clogged link and no fault
Network_admits(src_node, dst, fault) ==
    LET dn == owner(src_node, dst) IN
    /\ mailbox_of(dn, dst) # 0
    /\ \/ dn = src_node
       \/ /\ src_node \notin clogged
          /\ dn \notin clogged
          /\ <<src_node, dn>> \notin clogged_links
          /\ ~fault

\* Network::clog_link and Network::unclog_link, on a set of links
Network_clog_link(links, a, b) == links \cup {<<a, b>>}
Network_unclog_link(links, a, b) == links \ {<<a, b>>}

\* ---- mod.rs: the Endpoint facade and NetSim over msim's Network ----

\* the requests bind is tried with: every IP, an ephemeral and a fixed port
BindRequests ==
    {SockAddr(ip, port) :
        ip \in {Unspecified, Localhost} \cup {NodeIp(n) : n \in {1, 2}},
        port \in {0, 1}}

\* bind_sync that makes the Endpoint whatever Network::bind answered
bind_sync_unchecked(node, req) ==
    /\ Len(handles) < MaxBinds
    /\ LET b == Network_bind(node, req)
       IN /\ sockets' = b.sockets
          /\ heap' = b.heap
          /\ next_ephemeral' = b.next_ephemeral
          /\ handles' = Append(handles,
                 [node |-> node, addr |-> b.addr, open |-> TRUE,
                   peer |-> None])
          /\ last_call' = [op |-> "bind", node |-> node, arg |-> req,
                           ret |-> "Ok", addr |-> b.addr]
    /\ UNCHANGED <<host_state, host_fds,
                   endpoints, clogged, packet_loss_rate, msg_count, timers,
                   receivers, sent, delivered, clogged_links, next_port_map>>

\* bind_sync that keeps the address it was asked for in the Endpoint
bind_sync_keeps_request(node, req) ==
    /\ Len(handles) < MaxBinds
    /\ LET b == Network_bind(node, req)
       IN /\ sockets' = b.sockets
          /\ heap' = b.heap
          /\ next_ephemeral' = b.next_ephemeral
          /\ handles' = IF b.ret = "Ok"
                         THEN Append(handles,
                                  [node |-> node, addr |-> req, open |-> TRUE,
                   peer |-> None])
                         ELSE handles
          /\ last_call' = [op |-> "bind", node |-> node, arg |-> req,
                           ret |-> b.ret, addr |-> req]
    /\ UNCHANGED <<host_state, host_fds,
                   endpoints, clogged, packet_loss_rate, msg_count, timers,
                   receivers, sent, delivered, clogged_links, next_port_map>>

\* bind_sync that, told the address is in use, closes it and binds again
bind_sync_replacing(node, req) ==
    /\ Len(handles) < MaxBinds
    /\ LET b == Network_bind(node, req)
           c == Network_close(node, b.addr)
           inuse == b.ret = "AddrInUse"
       IN /\ sockets' = IF inuse
                         THEN c.sockets @@ (<<node, b.addr>> :> Len(heap) + 1)
                         ELSE b.sockets
          /\ heap' = IF inuse THEN Append(c.heap, NewEndpoint) ELSE b.heap
          /\ receivers' = IF inuse THEN c.receivers ELSE receivers
          /\ next_ephemeral' = b.next_ephemeral
          /\ handles' = IF b.ret # "AddrNotAvailable"
                         THEN Append(handles,
                                  [node |-> node, addr |-> b.addr, open |-> TRUE,
                   peer |-> None])
                         ELSE handles
          /\ last_call' = [op |-> "bind", node |-> node, arg |-> req,
                           ret |-> IF inuse THEN "Ok" ELSE b.ret,
                           addr |-> b.addr]
    /\ UNCHANGED <<host_state, host_fds,
                   endpoints, clogged, packet_loss_rate, msg_count, timers,
                   sent, delivered, clogged_links, next_port_map>>

\* Endpoint::bind_sync on a task of the node (Endpoint::bind is the same after
\* its delay): `?` returns the error of Network::bind, and else the
\* Endpoint holds the address Network::bind resolved.  last_call records the
\* call and its result, with the address of the Endpoint on Ok.
bind_sync(node, req) ==
    /\ Len(handles) < MaxBinds
    /\ LET b == Network_bind(node, req)
       IN /\ sockets' = b.sockets
          /\ heap' = b.heap
          /\ next_ephemeral' = b.next_ephemeral
          /\ handles' = IF b.ret = "Ok"
                         THEN Append(handles,
                                  [node |-> node, addr |-> b.addr, open |-> TRUE,
                   peer |-> None])
                         ELSE handles
          /\ last_call' = [op |-> "bind", node |-> node, arg |-> req,
                           ret |-> b.ret, addr |-> b.addr]
    /\ UNCHANGED <<host_state, host_fds,
                   endpoints, clogged, packet_loss_rate, msg_count, timers,
                   receivers, sent, delivered, clogged_links, next_port_map>>

\* Endpoint::local_addr
local_addr(h) == handles[h].addr

\* an Endpoint dropped without telling the Network
drop_endpoint_no_close(h) ==
    /\ handles[h].open
    /\ handles' = [handles EXCEPT ![h].open = FALSE]
    /\ last_call' = [op |-> "drop", h |-> h]
    /\ UNCHANGED <<host_state, host_fds,
                   endpoints, clogged, packet_loss_rate, msg_count, timers,
                   sent, delivered, clogged_links, next_port_map,
                   next_ephemeral, sockets, heap, receivers>>

\* impl Drop for Endpoint: Network::close(self.node, self.addr)
drop_endpoint(h) ==
    /\ handles[h].open
    /\ LET c == Network_close(handles[h].node, handles[h].addr)
       IN /\ sockets' = c.sockets
          /\ heap' = c.heap
          /\ receivers' = c.receivers
    /\ handles' = [handles EXCEPT ![h].open = FALSE]
    /\ last_call' = [op |-> "drop", h |-> h]
    /\ UNCHANGED <<host_state, host_fds,
                   endpoints, clogged, packet_loss_rate, msg_count, timers,
                   sent, delivered, clogged_links, next_port_map,
                   next_ephemeral>>

\* NetSim::reset_node
reset_node(id) ==
    /\ LET n == Network_reset_node(id)
       IN /\ sockets' = n.table.sockets
          /\ heap' = n.table.heap
          /\ receivers' = n.table.receivers
          /\ clogged' = n.clogged
          /\ clogged_links' = n.clogged_links
    /\ last_call' = [op |-> "reset_node", node |-> id]
    /\ UNCHANGED <<host_state, host_fds,
                   endpoints, packet_loss_rate, msg_count, timers, sent,
                   delivered, next_port_map, next_ephemeral, handles>>

\* send_to_raw_sync that hands Network::send a node that has the destination
\* bound, whichever it is, instead of the node of the running task
send_to_raw_sync_any_node(h, dst, tag, fault) ==
    /\ handles[h].open
    /\ mailbox_of(handles[h].node, handles[h].addr) # 0
    /\ LET sn == IF \E n \in Nodes : mailbox_of(n, dst) # 0
                 THEN CHOOSE n \in Nodes : mailbox_of(n, dst) # 0
                 ELSE handles[h].node
           dn == owner(sn, dst)
           e == mailbox_of(dn, dst)
       IN /\ sent' = Append(sent,
                 [src |-> handles[h].addr, dst |-> dst, tag |-> tag, ep |-> e,
                  clog |-> sn \in clogged \/ dn \in clogged, fault |-> fault,
                  sn |-> handles[h].node, dn |-> dn,
                  fwd |-> <<sn, dn>> \in clogged_links,
                  rev |-> <<dn, sn>> \in clogged_links])
          /\ IF Network_admits(sn, dst, fault)
             THEN /\ timers' = timers \cup
                         {[ep |-> e,
                           msg |-> [tag |-> tag, data |-> Len(sent) + 1,
                                    from |-> handles[h].addr]]}
                  /\ msg_count' = msg_count + 1
             ELSE UNCHANGED <<timers, msg_count>>
    /\ last_call' = [op |-> "send_to_raw", h |-> h, ret |-> "Ok"]
    /\ UNCHANGED <<host_state, host_fds,
                   endpoints, heap, clogged, packet_loss_rate, receivers,
                   delivered, sockets, clogged_links, next_ephemeral,
                   next_port_map, handles>>

\* Endpoint::send_to_raw_sync: Network::send(node, self.addr, dst, tag, data),
\* which asserts that the source is bound.  The history entry records, besides
\* what Network::send of madsim records, the two nodes and whether the link
\* from the source's node to the destination's, and the one back, was clogged.
send_to_raw_sync(h, dst, tag, fault) ==
    /\ handles[h].open
    /\ mailbox_of(handles[h].node, handles[h].addr) # 0
    /\ LET sn == handles[h].node
           dn == owner(sn, dst)
           e == mailbox_of(dn, dst)
       IN /\ sent' = Append(sent,
                 [src |-> handles[h].addr, dst |-> dst, tag |-> tag, ep |-> e,
                  clog |-> sn \in clogged \/ dn \in clogged, fault |-> fault,
                  sn |-> sn, dn |-> dn,
                  fwd |-> <<sn, dn>> \in clogged_links,
                  rev |-> <<dn, sn>> \in clogged_links])
          /\ IF Network_admits(sn, dst, fault)
             THEN /\ timers' = timers \cup
                         {[ep |-> e,
                           msg |-> [tag |-> tag, data |-> Len(sent) + 1,
                                    from |-> handles[h].addr]]}
                  /\ msg_count' = msg_count + 1
             ELSE UNCHANGED <<timers, msg_count>>
    /\ last_call' = [op |-> "send_to_raw", h |-> h, ret |-> "Ok"]
    /\ UNCHANGED <<host_state, host_fds,
                   endpoints, heap, clogged, packet_loss_rate, receivers,
                   delivered, sockets, clogged_links, next_ephemeral,
                   next_port_map, handles>>

\* Endpoint::recv_from_raw up to its await: Network::recv(node, self.addr, tag);
\* on an address without mailbox the receiver resolves as Canceled at once,
\* which the facade turns into BrokenPipe
recv_from_raw(h, tag) ==
    /\ handles[h].open
    /\ LET e == mailbox_of(handles[h].node, handles[h].addr)
           r == sim_mailbox_recv(heap[IF e = 0 THEN 1 ELSE e], tag,
                                 Len(receivers) + 1)
       IN IF e = 0
          THEN /\ receivers' = Append(receivers,
                      [addr |-> handles[h].addr, tag |-> tag, ep |-> 0,
                       state |-> "canceled", msg |-> NoMsg])
               /\ UNCHANGED heap
          ELSE /\ heap' = [heap EXCEPT ![e] = r.ep]
               /\ receivers' = Append(receivers,
                      [addr |-> handles[h].addr, tag |-> tag, ep |-> e,
                       state |-> IF r.got = NoMsg THEN "waiting" ELSE "ready",
                       msg |-> r.got])
    /\ last_call' = [op |-> "recv_from_raw", h |-> h, ret |-> "pending"]
    /\ UNCHANGED <<host_state, host_fds,
                   endpoints, clogged, packet_loss_rate, msg_count, timers,
                   sent, delivered, sockets, clogged_links, next_ephemeral,
                   next_port_map, handles>>

\* the timer scheduled by Network::send runs: deliver into the mailbox, or
\* nothing when the mailbox has left the table
sim_timer(t) ==
    /\ timers' = timers \ {t}
    /\ IF \E k \in DOMAIN sockets : sockets[k] = t.ep
       THEN LET r == sim_deliver(heap[t.ep], t.msg, Live(receivers))
            IN /\ heap' = [heap EXCEPT ![t.ep] = r.ep]
               /\ receivers' = IF r.to = 0 THEN receivers
                               ELSE [receivers EXCEPT ![r.to].state = "ready",
                                                      ![r.to].msg = t.msg]
               /\ delivered' = Append(delivered, [ep |-> t.ep, msg |-> t.msg])
       ELSE UNCHANGED <<heap, receivers, delivered>>
    /\ UNCHANGED <<endpoints, clogged, packet_loss_rate, msg_count, sent>>
    /\ UNCHANGED simvars

\* the msim API on two nodes, without clogs and with the loss rate 0
BindNext ==
    \/ \E node \in {1, 2}, req \in BindRequests : bind_sync(node, req)
    \/ \E h \in 1..Len(handles) : drop_endpoint(h)
    \/ \E node \in {1, 2} : reset_node(node)
    \/ \E h \in 1..Len(handles), d \in 1..Len(handles), tag \in Tags :
           Len(sent) < MaxSimSends
           /\ send_to_raw_sync(h, handles[d].addr, tag, FALSE)
    \/ \E h \in 1..Len(handles), tag \in Tags :
           Len(receivers) < MaxSimRecvs /\ recv_from_raw(h, tag)
    \/ \E r \in 1..Len(receivers) : drop_receiver(r)
    \/ \E t \in timers : sim_timer(t)

BindSpec == Init /\ [][BindNext]_vars

\* ---- mod.rs: the Endpoint facade, peers and byte buffers ----

\* Endpoint::connect that binds the unspecified address whatever the peer
connect_unspecified(node, peer) ==
    /\ Len(handles) < MaxConnHandles
    /\ LET addr == SockAddr(Unspecified, 0)
           b == Network_bind(node, addr)
       IN /\ sockets' = b.sockets
          /\ heap' = b.heap
          /\ next_ephemeral' = b.next_ephemeral
          /\ handles' = IF b.ret = "Ok"
                         THEN Append(handles,
                                  [node |-> node, addr |-> b.addr, open |-> TRUE,
                                   peer |-> peer])
                         ELSE handles
          /\ last_call' = [op |-> "connect", node |-> node, arg |-> peer,
                           ret |-> b.ret, addr |-> b.addr]
    /\ UNCHANGED <<host_state, host_fds,
                   endpoints, clogged, packet_loss_rate, msg_count, timers,
                   receivers, sent, delivered, clogged_links, next_port_map>>

\* Endpoint::connect on a task of the node: an ephemeral port of the loopback
\* address when the peer is loopback and of the unspecified address
\* otherwise is bound, and the Endpoint keeps the peer
connect(node, peer) ==
    /\ Len(handles) < MaxConnHandles
    /\ LET addr == IF peer.ip = Localhost THEN SockAddr(Localhost, 0)
                   ELSE SockAddr(Unspecified, 0)
           b == Network_bind(node, addr)
       IN /\ sockets' = b.sockets
          /\ heap' = b.heap
          /\ next_ephemeral' = b.next_ephemeral
          /\ handles' = IF b.ret = "Ok"
                         THEN Append(handles,
                                  [node |-> node, addr |-> b.addr, open |-> TRUE,
                                   peer |-> peer])
                         ELSE handles
          /\ last_call' = [op |-> "connect", node |-> node, arg |-> peer,
                           ret |-> b.ret, addr |-> b.addr]
    /\ UNCHANGED <<host_state, host_fds,
                   endpoints, clogged, packet_loss_rate, msg_count, timers,
                   receivers, sent, delivered, clogged_links, next_port_map>>

\* Endpoint::udp_tag
udp_tag(h) ==
    LET port == handles[h].addr.port IN
    IF port = 0 THEN [ret |-> "NotConnected", tag |-> 0]
    ELSE [ret |-> "Ok", tag |-> port]

\* Endpoint::peer_addr
peer_addr(h) ==
    IF handles[h].peer = None THEN [ret |-> "NotConnected", addr |-> None]
    ELSE [ret |-> "Ok", addr |-> handles[h].peer]

\* a call that returns without touching the network: only last_call records it
returns_at_once(call) ==
    /\ last_call' = call
    /\ UNCHANGED <<host_state, host_fds,
                   endpoints, heap, clogged, packet_loss_rate, msg_count, timers,
                   receivers, sent, delivered, sockets, clogged_links,
                   next_ephemeral, next_port_map, handles>>

\* a task calls udp_tag, and peer_addr
call_udp_tag(h) ==
    /\ handles[h].open
    /\ returns_at_once([op |-> "udp_tag", h |-> h, ret |-> udp_tag(h).ret,
                        tag |-> udp_tag(h).tag])

call_peer_addr(h) ==
    /\ handles[h].open
    /\ returns_at_once([op |-> "peer_addr", h |-> h, ret |-> peer_addr(h).ret,
                        addr |-> peer_addr(h).addr])

\* Endpoint::send_to_raw on behalf of the call `op`: Network::send with the
\* payload, which the message carries besides what the model makes of data
send_to_raw(op, h, dst, tag, payload, fault) ==
    /\ handles[h].open
    /\ mailbox_of(handles[h].node, handles[h].addr) # 0
    /\ LET sn == handles[h].node
           dn == owner(sn, dst)
           e == mailbox_of(dn, dst)
       IN /\ sent' = Append(sent,
                 [src |-> handles[h].addr, dst |-> dst, tag |-> tag, ep |-> e,
                  clog |-> sn \in clogged \/ dn \in clogged, fault |-> fault,
                  sn |-> sn, dn |-> dn,
                  fwd |-> <<sn, dn>> \in clogged_links,
                  rev |-> <<dn, sn>> \in clogged_links] @@ payload)
          /\ IF Network_admits(sn, dst, fault)
             THEN /\ timers' = timers \cup
                         {[ep |-> e,
                           msg |-> [tag |-> tag, data |-> Len(sent) + 1,
                                    from |-> handles[h].addr] @@ payload]}
                  /\ msg_count' = msg_count + 1
             ELSE UNCHANGED <<timers, msg_count>>
    /\ last_call' = [op |-> op, h |-> h, ret |-> "Ok"]
    /\ UNCHANGED <<host_state, host_fds,
                   endpoints, heap, clogged, packet_loss_rate, receivers,
                   delivered, sockets, clogged_links, next_ephemeral,
                   next_port_map, handles>>

\* Endpoint::send_to: the bytes are boxed and given to send_to_raw
send_to(h, dst, tag, buf, fault) ==
    send_to_raw("send_to", h, dst, tag, [bytes |-> buf], fault)

\* Endpoint::send that sends to the peer it takes for granted
send_unchecked(h, tag, buf, fault) ==
    send_to_raw("send", h,
                IF handles[h].peer = None THEN handles[h].addr
                ELSE handles[h].peer, tag, [bytes |-> buf], fault)

\* Endpoint::send: peer_addr()?, then send_to the peer
send_peer(h, tag, buf, fault) ==
    IF peer_addr(h).ret # "Ok"
    THEN /\ handles[h].open
         /\ returns_at_once([op |-> "send", h |-> h, ret |-> peer_addr(h).ret])
    ELSE send_to_raw("send", h, peer_addr(h).addr, tag, [bytes |-> buf], fault)

\* Endpoint::send_raw: peer_addr()?, then send_to_raw to the peer
send_raw(h, tag, fault) ==
    IF peer_addr(h).ret # "Ok"
    THEN /\ handles[h].open
         /\ returns_at_once([op |-> "send_raw", h |-> h, ret |-> peer_addr(h).ret])
    ELSE send_to_raw("send_raw", h, peer_addr(h).addr, tag, [raw |-> TRUE],
                     fault)

\* Endpoint::recv_from_raw up to its await, on behalf of the call `api`, which
\* the entry in receivers keeps with what the call needs when the await ends
await_recv_from_raw(h, tag, api) ==
    /\ handles[h].open
    /\ LET e == mailbox_of(handles[h].node, handles[h].addr)
           r == sim_mailbox_recv(heap[IF e = 0 THEN 1 ELSE e], tag,
                                 Len(receivers) + 1)
       IN IF e = 0
          THEN /\ receivers' = Append(receivers,
                      [addr |-> handles[h].addr, tag |-> tag, ep |-> 0,
                       state |-> "canceled", msg |-> NoMsg] @@ api)
               /\ UNCHANGED heap
          ELSE /\ heap' = [heap EXCEPT ![e] = r.ep]
               /\ receivers' = Append(receivers,
                      [addr |-> handles[h].addr, tag |-> tag, ep |-> e,
                       state |-> IF r.got = NoMsg THEN "waiting" ELSE "ready",
                       msg |-> r.got] @@ api)
    /\ last_call' = [op |-> api.api, h |-> h, ret |-> "pending"]
    /\ UNCHANGED <<host_state, host_fds,
                   endpoints, clogged, packet_loss_rate, msg_count, timers,
                   sent, delivered, sockets, clogged_links, next_ephemeral,
                   next_port_map, handles>>

\* Endpoint::recv_from up to the await
recv_from(h, tag, buf) ==
    await_recv_from_raw(h, tag, [api |-> "recv_from", peer |-> None, buf |-> buf])

\* Endpoint::recv that waits for a message without asking for the peer
recv_unchecked(h, tag, buf) ==
    await_recv_from_raw(h, tag,
        [api |-> "recv", peer |-> handles[h].peer, buf |-> buf])

\* Endpoint::recv up to the await: peer_addr()?, then recv_from
recv_peer(h, tag, buf) ==
    IF peer_addr(h).ret # "Ok"
    THEN /\ handles[h].open
         /\ returns_at_once([op |-> "recv", h |-> h, ret |-> peer_addr(h).ret])
    ELSE await_recv_from_raw(h, tag,
             [api |-> "recv", peer |-> peer_addr(h).addr, buf |-> buf])

\* Endpoint::recv_raw up to the await: peer_addr()?, then recv_from_raw
recv_raw(h, tag) ==
    IF peer_addr(h).ret # "Ok"
    THEN /\ handles[h].open
         /\ returns_at_once([op |-> "recv_raw", h |-> h, ret |-> peer_addr(h).ret])
    ELSE await_recv_from_raw(h, tag,
             [api |-> "recv_raw", peer |-> peer_addr(h).addr, buf |-> <<>>])

\* recv_from that copies the whole message into a buffer taken to be large
\* enough
copy_all(buf, data) ==
    [len |-> Len(data), buf |-> data \o SubSeq(buf, Len(data) + 1, Len(buf))]

\* recv_from after the await: len = buf.len().min(data.len()) and
\* buf[..len].copy_from_slice(&data[..len])
copy_from_slice(buf, data) ==
    LET len == IF Len(buf) < Len(data) THEN Len(buf) ELSE Len(data) IN
    [len |-> len, buf |-> SubSeq(data, 1, len) \o SubSeq(buf, len + 1, Len(buf))]

\* the await of a call of recv_from, recv or recv_raw ends and the call
\* returns.  A canceled receiver is BrokenPipe.  recv_from downcasts the
\* payload to bytes, which panics on a raw payload ("message is not data"),
\* and copies; recv and recv_raw then assert that the message is from the
\* peer ("receive a message but not from the connected address").  The entry
\* keeps the buffer as it was passed in buf and as the call left it in
\* buf_after.
recv_returns(r) ==
    /\ "api" \in DOMAIN receivers[r]
    /\ receivers[r].state \in {"ready", "canceled"}
    /\ LET rx == receivers[r]
           raw == rx.api = "recv_raw"
           c == IF raw \/ "bytes" \notin DOMAIN rx.msg
                THEN [len |-> 0, buf |-> rx.buf]
                ELSE copy_from_slice(rx.buf, rx.msg.bytes)
           out == IF rx.state = "canceled" THEN "BrokenPipe"
                  ELSE IF ~raw /\ "bytes" \notin DOMAIN rx.msg
                       THEN "panic_not_data"
                  ELSE IF rx.api # "recv_from" /\ rx.msg.from # rx.peer
                       THEN "panic_not_peer"
                  ELSE "Ok"
       IN receivers' = [receivers EXCEPT ![r] =
              [k \in DOMAIN rx \ {"state"} |-> rx[k]]
              @@ [state |-> out, buf_after |-> c.buf, len |-> c.len,
                  from |-> rx.msg.from]]
    /\ UNCHANGED <<endpoints, heap, clogged, packet_loss_rate, msg_count, timers,
                   sent, delivered>>
    /\ UNCHANGED simvars

\* node 1 has bound port 1 of its IP and of the loopback address, as two
\* calls of bind leave it
ConnPeers == {SockAddr(NodeIp(1), 1), SockAddr(Localhost, 1)}

ConnInit ==
    /\ endpoints = [a \in Addrs |-> 0]
    /\ heap = <<NewEndpoint, NewEndpoint>>
    /\ clogged = {}
    /\ packet_loss_rate = 0
    /\ msg_count = 0
    /\ timers = {}
    /\ receivers = <<>>
    /\ sent = <<>>
    /\ delivered = <<>>
    /\ sockets = (<<1, SockAddr(NodeIp(1), 1)>> :> 1)
                     @@ (<<1, SockAddr(Localhost, 1)>> :> 2)
    /\ clogged_links = {}
    /\ next_ephemeral = [n \in Nodes |-> 0]
    /\ next_port_map = [n \in Nodes |-> Vacant]
    /\ handles = <<[node |-> 1, addr |-> SockAddr(NodeIp(1), 1), open |-> TRUE,
                    peer |-> None],
                   [node |-> 1, addr |-> SockAddr(Localhost, 1), open |-> TRUE,
                    peer |-> None]>>
    /\ last_call = [op |-> "none"]
    /\ host_state = <<>>
    /\ host_fds = {}

\* tasks of nodes 1 and 2 connect to the two addresses and use the Endpoints
ConnNext ==
    \/ \E node \in {1, 2}, peer \in ConnPeers : connect(node, peer)
    \/ \E h \in 1..Len(handles) : call_peer_addr(h)
    \/ \E h \in 1..Len(handles) : call_udp_tag(h)
    \/ \E h \in 1..Len(handles), d \in 1..Len(handles) :
           Len(sent) < MaxConnSends
           /\ send_to(h, handles[d].addr, 1, <<1>>, FALSE)
    \/ \E h \in 1..Len(handles) :
           Len(sent) < MaxConnSends /\ send_peer(h, 1, <<1>>, FALSE)
    \/ \E h \in 1..Len(handles) :
           Len(sent) < MaxConnSends /\ send_raw(h, 1, FALSE)
    \/ \E h \in 1..Len(handles) :
           Len(receivers) < MaxConnRecvs /\ recv_from(h, 1, <<0>>)
    \/ \E h \in 1..Len(handles) :
           Len(receivers) < MaxConnRecvs /\ recv_peer(h, 1, <<0>>)
    \/ \E h \in 1..Len(handles) :
           Len(receivers) < MaxConnRecvs /\ recv_raw(h, 1)
    \/ \E r \in 1..Len(receivers) : recv_returns(r)
    \/ \E t \in timers : sim_timer(t)

ConnSpec == ConnInit /\ [][ConnNext]_vars

\* the byte strings over S up to the length n
Slices(S, n) == UNION {[1..k -> S] : k \in 0..n}

\* the messages sent and the buffers received into: bytes that tell the one
\* from the other
Payloads == Slices({1, 2}, MaxLen)
Buffers == Slices({8, 9}, MaxLen)

\* nodes 1 and 2 have each bound port 1 of their IP, as in test send_recv
DataInit ==
    /\ endpoints = [a \in Addrs |-> 0]
    /\ heap = <<NewEndpoint, NewEndpoint>>
    /\ clogged = {}
    /\ packet_loss_rate = 0
    /\ msg_count = 0
    /\ timers = {}
    /\ receivers = <<>>
    /\ sent = <<>>
    /\ delivered = <<>>
    /\ sockets = (<<1, SockAddr(NodeIp(1), 1)>> :> 1)
                     @@ (<<2, SockAddr(NodeIp(2), 1)>> :> 2)
    /\ clogged_links = {}
    /\ next_ephemeral = [n \in Nodes |-> 0]
    /\ next_port_map = [n \in Nodes |-> Vacant]
    /\ handles = <<[node |-> 1, addr |-> SockAddr(NodeIp(1), 1), open |-> TRUE,
                    peer |-> None],
                   [node |-> 2, addr |-> SockAddr(NodeIp(2), 1), open |-> TRUE,
                    peer |-> None]>>
    /\ last_call = [op |-> "none"]
    /\ host_state = <<>>
    /\ host_fds = {}

\* bytes are sent and received into buffers of any length
DataNext ==
    \/ \E h \in 1..Len(handles), d \in 1..Len(handles), buf \in Payloads :
           Len(sent) < MaxDataSends
           /\ send_to(h, handles[d].addr, 1, buf, FALSE)
    \/ \E h \in 1..Len(handles), buf \in Buffers :
           Len(receivers) < MaxDataRecvs /\ recv_from(h, 1, buf)
    \/ \E r \in 1..Len(receivers) : recv_returns(r)
    \/ \E t \in timers : sim_timer(t)

DataSpec == DataInit /\ [][DataNext]_vars

\* recv_from_raw_sync that asks Network::recv for a receiver and gives up on
\* it when no message is there yet
recv_from_raw_sync_parking(h, tag) ==
    /\ handles[h].open
    /\ mailbox_of(handles[h].node, handles[h].addr) # 0
    /\ LET e == mailbox_of(handles[h].node, handles[h].addr)
           r == sim_mailbox_recv(heap[e], tag, Len(receivers) + 1)
       IN /\ heap' = [heap EXCEPT ![e] = r.ep]
          /\ receivers' = IF r.got = NoMsg
                           THEN Append(receivers,
                                    [addr |-> handles[h].addr, tag |-> tag,
                                     ep |-> e, state |-> "waiting",
                                     msg |-> NoMsg])
                           ELSE receivers
          /\ last_call' = [op |-> "recv_from_raw_sync", h |-> h, tag |-> tag,
                           ret |-> IF r.got = NoMsg THEN "WouldBlock" ELSE "Ok",
                           msg |-> r.got]
    /\ UNCHANGED <<host_state, host_fds,
                   endpoints, clogged, packet_loss_rate, msg_count, timers,
                   sent, delivered, sockets, clogged_links, next_ephemeral,
                   next_port_map, handles>>

\* Endpoint::recv_from_raw_sync: Network::recv_sync(node, self.addr, tag), and
\* WouldBlock for None
recv_from_raw_sync(h, tag) ==
    /\ handles[h].open
    /\ mailbox_of(handles[h].node, handles[h].addr) # 0
    /\ LET e == mailbox_of(handles[h].node, handles[h].addr)
           r == sim_recv_sync(heap[e], tag)
       IN /\ heap' = [heap EXCEPT ![e] = r.ep]
          /\ last_call' = [op |-> "recv_from_raw_sync", h |-> h, tag |-> tag,
                           ret |-> IF r.got = NoMsg THEN "WouldBlock" ELSE "Ok",
                           msg |-> r.got]
    /\ UNCHANGED <<host_state, host_fds,
                   endpoints, clogged, packet_loss_rate, msg_count, timers,
                   receivers, sent, delivered, sockets, clogged_links,
                   next_ephemeral, next_port_map, handles>>

\* two bound Endpoints send to each other and receive without blocking, and
\* with blocking
SyncNext ==
    \/ \E h \in 1..Len(handles), d \in 1..Len(handles), tag \in Tags :
           Len(sent) < MaxSyncSends
           /\ send_to_raw_sync(h, handles[d].addr, tag, FALSE)
    \/ \E h \in 1..Len(handles), tag \in Tags : recv_from_raw_sync(h, tag)
    \/ \E h \in 1..Len(handles), tag \in Tags :
           Len(receivers) < MaxSyncRecvs /\ recv_from_raw(h, tag)
    \/ \E t \in timers : sim_timer(t)

SyncSpec == DataInit /\ [][SyncNext]_vars

\* ---- mod.rs: the syscall shim ----

\* the descriptors dup(0) hands out: the lowest one the process has free
Fds == 3..(2 + MaxFds)
SocketTypes == {"SOCK_DGRAM", "SOCK_STREAM"}

\* SocketState.endpoint: Some(Arc<Endpoint>), the handle by its index
Some(h) == [some |-> h]

\* HostNetworkState.sockets without the entry of the key
without(key) == [k \in DOMAIN host_state \ {key} |-> host_state[k]]

\* SocketAddr::is_ipv6: the IPv6 addresses are the negative ones
Ipv6Unspecified == -1
is_ipv6(addr) == addr.ip < 0

\* a panic in the shim is raised under the lock of host_state, which stays
\* poisoned: no later call gets past host_state.lock().unwrap()
aborted == "ret" \in DOMAIN last_call /\ last_call.ret = "panic"

\* dropping a SocketState drops the Endpoint it holds, if any: the mailbox
\* of its address is closed
drop_socket_state(s) ==
    IF s.endpoint = None
    THEN [sockets |-> sockets, heap |-> heap, receivers |-> receivers,
          handles |-> handles]
    ELSE LET ep == s.endpoint.some
             c == Network_close(handles[ep].node, handles[ep].addr)
         IN [sockets |-> c.sockets, heap |-> c.heap, receivers |-> c.receivers,
             handles |-> [handles EXCEPT ![ep].open = FALSE]]

\* socket(): dup(0) returns the lowest descriptor the process has free, and
\* add_socket inserts the socket-state under <<current node, fd>>.  The
\* insert replaces a state the key already has, the replaced state is
\* dropped, closing the descriptor again, and the assertion panics.
socket(node, ty) ==
    /\ ~aborted
    /\ Fds \ host_fds # {}
    /\ LET fd == CHOOSE f \in Fds \ host_fds : \A g \in Fds \ host_fds : f <= g
           key == <<node, fd>>
           state == [ty |-> ty, endpoint |-> None]
       IN IF key \notin DOMAIN host_state
          THEN /\ host_fds' = host_fds \cup {fd}
               /\ host_state' = host_state @@ (key :> state)
               /\ last_call' = [op |-> "socket", node |-> node, fd |-> fd,
                                ret |-> "fd"]
               /\ UNCHANGED <<sockets, heap, receivers, handles>>
          ELSE LET d == drop_socket_state(host_state[key])
               IN /\ host_fds' = host_fds
                  /\ host_state' = [host_state EXCEPT ![key] = state]
                  /\ sockets' = d.sockets
                  /\ heap' = d.heap
                  /\ receivers' = d.receivers
                  /\ handles' = d.handles
                  /\ last_call' = [op |-> "socket", node |-> node, fd |-> fd,
                                   ret |-> "panic"]
    /\ UNCHANGED <<endpoints, clogged, packet_loss_rate, msg_count, timers,
                   sent, delivered, clogged_links, next_ephemeral,
                   next_port_map>>

\* HostNetworkState::bind_socket that replaces the Endpoint of a bound socket
bind_socket_replacing(node, fd, addr) ==
    /\ IF <<node, fd>> \notin DOMAIN host_state
       THEN /\ last_call' = [op |-> "bind", node |-> node, fd |-> fd,
                             addr |-> addr, ret |-> "panic", errno |-> "none"]
            /\ UNCHANGED <<sockets, heap, receivers, next_ephemeral, handles,
                           host_state>>
       ELSE LET b == Network_bind(node, addr)
            IN /\ sockets' = b.sockets
               /\ heap' = b.heap
               /\ next_ephemeral' = b.next_ephemeral
               /\ handles' = IF b.ret = "Ok"
                              THEN Append(handles,
                                       [node |-> node, addr |-> b.addr,
                                        open |-> TRUE, peer |-> None])
                              ELSE handles
               /\ host_state' = IF b.ret = "Ok"
                                 THEN [host_state EXCEPT ![<<node, fd>>].endpoint =
                                          Some(Len(handles) + 1)]
                                 ELSE host_state
               /\ last_call' = [op |-> "bind", node |-> node, fd |-> fd,
                                addr |-> addr,
                                ret |-> IF b.ret = "Ok" THEN "0" ELSE "panic",
                                errno |-> "none"]
               /\ UNCHANGED receivers
    /\ UNCHANGED <<host_fds, endpoints, clogged, packet_loss_rate, msg_count,
                   timers, sent, delivered, clogged_links, next_port_map>>

\* HostNetworkState::bind_socket.  The socket-state is unwrapped, the socket
\* asserted unbound and the result of Endpoint::bind_sync unwrapped: each of
\* the three panics when it fails.
bind_socket(node, fd, addr) ==
    /\ IF <<node, fd>> \notin DOMAIN host_state
       THEN /\ last_call' = [op |-> "bind", node |-> node, fd |-> fd,
                             addr |-> addr, ret |-> "panic", errno |-> "none"]
            /\ UNCHANGED <<sockets, heap, receivers, next_ephemeral, handles,
                           host_state>>
       ELSE IF host_state[<<node, fd>>].endpoint # None
       THEN /\ last_call' = [op |-> "bind", node |-> node, fd |-> fd,
                             addr |-> addr, ret |-> "panic", errno |-> "none"]
            /\ UNCHANGED <<sockets, heap, receivers, next_ephemeral, handles,
                           host_state>>
       ELSE LET b == Network_bind(node, addr)
            IN /\ sockets' = b.sockets
               /\ heap' = b.heap
               /\ next_ephemeral' = b.next_ephemeral
               /\ handles' = IF b.ret = "Ok"
                              THEN Append(handles,
                                       [node |-> node, addr |-> b.addr,
                                        open |-> TRUE, peer |-> None])
                              ELSE handles
               /\ host_state' = IF b.ret = "Ok"
                                 THEN [host_state EXCEPT ![<<node, fd>>].endpoint =
                                          Some(Len(handles) + 1)]
                                 ELSE host_state
               /\ last_call' = [op |-> "bind", node |-> node, fd |-> fd,
                                addr |-> addr,
                                ret |-> IF b.ret = "Ok" THEN "0" ELSE "panic",
                                errno |-> "none"]
               /\ UNCHANGED receivers
    /\ UNCHANGED <<host_fds, endpoints, clogged, packet_loss_rate, msg_count,
                   timers, sent, delivered, clogged_links, next_port_map>>

\* bind(): an IPv6 address is refused with EADDRNOTAVAIL, and an IPv4 address
\* goes to bind_socket
bind(node, fd, addr) ==
    /\ ~aborted
    /\ Len(handles) < MaxShimBinds
    /\ IF is_ipv6(addr)
       THEN returns_at_once([op |-> "bind", node |-> node, fd |-> fd,
                             addr |-> addr, ret |-> "-1",
                             errno |-> "EADDRNOTAVAIL"])
       ELSE bind_socket(node, fd, addr)

\* close(): HostNetworkState::close_socket removes the socket-state of
\* <<current node, fd>>, and dropping it closes the placeholder descriptor,
\* asserting that the close succeeds, and drops the Endpoint; a descriptor
\* without socket-state of the node goes to the close of libc, which closes
\* it when the process has it open
close(node, fd) ==
    /\ ~aborted
    /\ IF <<node, fd>> \in DOMAIN host_state
       THEN LET d == drop_socket_state(host_state[<<node, fd>>])
            IN /\ host_state' = without(<<node, fd>>)
               /\ host_fds' = host_fds \ {fd}
               /\ sockets' = d.sockets
               /\ heap' = d.heap
               /\ receivers' = d.receivers
               /\ handles' = d.handles
               /\ last_call' = [op |-> "close", node |-> node, fd |-> fd,
                                ours |-> TRUE,
                                ret |-> IF fd \in host_fds THEN "0" ELSE "panic"]
       ELSE /\ host_fds' = host_fds \ {fd}
            /\ last_call' = [op |-> "close", node |-> node, fd |-> fd,
                             ours |-> FALSE,
                             ret |-> IF fd \in host_fds THEN "0" ELSE "-1"]
            /\ UNCHANGED <<host_state, sockets, heap, receivers, handles>>
    /\ UNCHANGED <<endpoints, clogged, packet_loss_rate, msg_count, timers, sent,
                   delivered, clogged_links, next_ephemeral, next_port_map>>

\* sendmsg that takes the port of the sending socket for the tag
sendmsg_own_port(node, fd, dst) ==
    ~aborted /\
    IF <<node, fd>> \notin DOMAIN host_state
    THEN returns_at_once([op |-> "sendmsg", node |-> node, fd |-> fd,
                          ret |-> "-1", errno |-> "EADDRNOTAVAIL"])
    ELSE IF \/ host_state[<<node, fd>>].ty # "SOCK_DGRAM"
            \/ host_state[<<node, fd>>].endpoint = None
    THEN returns_at_once([op |-> "sendmsg", node |-> node, fd |-> fd,
                          ret |-> "panic", errno |-> "none"])
    ELSE /\ Len(sent) < MaxShimSends
         /\ send_to_raw("sendmsg", host_state[<<node, fd>>].endpoint.some, dst,
                        handles[host_state[<<node, fd>>].endpoint.some].addr.port,
                        [udp |-> TRUE], FALSE)

\* sendmsg(): with_socket, whose error becomes EADDRNOTAVAIL, and send_impl:
\* the socket is asserted to be UDP and bound, and the message goes out with
\* send_to_raw_sync(dst, dst.port(), msg)
sendmsg(node, fd, dst) ==
    ~aborted /\
    IF <<node, fd>> \notin DOMAIN host_state
    THEN returns_at_once([op |-> "sendmsg", node |-> node, fd |-> fd,
                          ret |-> "-1", errno |-> "EADDRNOTAVAIL"])
    ELSE IF \/ host_state[<<node, fd>>].ty # "SOCK_DGRAM"
            \/ host_state[<<node, fd>>].endpoint = None
    THEN returns_at_once([op |-> "sendmsg", node |-> node, fd |-> fd,
                          ret |-> "panic", errno |-> "none"])
    ELSE /\ Len(sent) < MaxShimSends
         /\ send_to_raw("sendmsg", host_state[<<node, fd>>].endpoint.some, dst,
                        dst.port, [udp |-> TRUE], FALSE)

\* recvmsg that reports a descriptor without socket-state as an empty socket
recvmsg_no_socket_eagain(node, fd) ==
    ~aborted /\
    IF <<node, fd>> \notin DOMAIN host_state
    THEN returns_at_once([op |-> "recvmsg", node |-> node, fd |-> fd,
                          ret |-> "-1", errno |-> "EAGAIN", msg |-> NoMsg])
    ELSE IF \/ host_state[<<node, fd>>].ty # "SOCK_DGRAM"
            \/ host_state[<<node, fd>>].endpoint = None
            \/ udp_tag(host_state[<<node, fd>>].endpoint.some).ret # "Ok"
    THEN returns_at_once([op |-> "recvmsg", node |-> node, fd |-> fd,
                          ret |-> "panic", errno |-> "none", msg |-> NoMsg])
    ELSE LET h == host_state[<<node, fd>>].endpoint.some
             e == mailbox_of(handles[h].node, handles[h].addr)
             r == sim_recv_sync(heap[e], udp_tag(h).tag)
         IN /\ heap' = [heap EXCEPT ![e] = r.ep]
            /\ last_call' =
                   [op |-> "recvmsg", node |-> node, fd |-> fd,
                    ret |-> IF r.got = NoMsg THEN "-1"
                            ELSE IF "udp" \in DOMAIN r.got THEN "len" ELSE "panic",
                    errno |-> IF r.got = NoMsg THEN "EAGAIN" ELSE "none",
                    msg |-> r.got]
            /\ UNCHANGED <<host_state, host_fds,
                           endpoints, clogged, packet_loss_rate, msg_count,
                           timers, receivers, sent, delivered, sockets,
                           clogged_links, next_ephemeral, next_port_map,
                           handles>>

\* recvmsg(): with_socket, whose error becomes ENOTSOCK; the socket is
\* asserted to be UDP and bound; recv_from_raw_sync(ep.udp_tag()), whose
\* WouldBlock becomes EAGAIN; the payload is downcast to a UDPMessage and
\* copied, and the call returns the number of bytes copied
recvmsg(node, fd) ==
    ~aborted /\
    IF <<node, fd>> \notin DOMAIN host_state
    THEN returns_at_once([op |-> "recvmsg", node |-> node, fd |-> fd,
                          ret |-> "-1", errno |-> "ENOTSOCK", msg |-> NoMsg])
    ELSE IF \/ host_state[<<node, fd>>].ty # "SOCK_DGRAM"
            \/ host_state[<<node, fd>>].endpoint = None
            \/ udp_tag(host_state[<<node, fd>>].endpoint.some).ret # "Ok"
    THEN returns_at_once([op |-> "recvmsg", node |-> node, fd |-> fd,
                          ret |-> "panic", errno |-> "none", msg |-> NoMsg])
    ELSE LET h == host_state[<<node, fd>>].endpoint.some
             e == mailbox_of(handles[h].node, handles[h].addr)
             r == sim_recv_sync(heap[e], udp_tag(h).tag)
         IN /\ heap' = [heap EXCEPT ![e] = r.ep]
            /\ last_call' =
                   [op |-> "recvmsg", node |-> node, fd |-> fd,
                    ret |-> IF r.got = NoMsg THEN "-1"
                            ELSE IF "udp" \in DOMAIN r.got THEN "len" ELSE "panic",
                    errno |-> IF r.got = NoMsg THEN "EAGAIN" ELSE "none",
                    msg |-> r.got]
            /\ UNCHANGED <<host_state, host_fds,
                           endpoints, clogged, packet_loss_rate, msg_count,
                           timers, receivers, sent, delivered, sockets,
                           clogged_links, next_ephemeral, next_port_map,
                           handles>>

\* the addresses the sockets are bound to and the datagrams are sent to
ShimBinds == {SockAddr(Unspecified, 1), SockAddr(Unspecified, 2)}
ShimDsts == {SockAddr(NodeIp(n), port) : n \in {1, 2}, port \in {1, 2}}

\* tasks of nodes 1 and 2 use sockets through the shim, and close the
\* sockets they have opened
ShimNext ==
    \/ \E node \in {1, 2}, ty \in SocketTypes : socket(node, ty)
    \/ \E node \in {1, 2}, fd \in Fds, addr \in ShimBinds : bind(node, fd, addr)
    \/ \E key \in DOMAIN host_state : close(key[1], key[2])
    \/ \E node \in {1, 2}, fd \in Fds, dst \in ShimDsts : sendmsg(node, fd, dst)
    \/ \E node \in {1, 2}, fd \in Fds : recvmsg(node, fd)
    \/ \E t \in timers : sim_timer(t)

ShimSpec == Init /\ [][ShimNext]_vars

\* the addresses bind is called with, one of them an IPv6 address
FdBinds == {SockAddr(Unspecified, 1), SockAddr(Localhost, 1),
            SockAddr(Ipv6Unspecified, 1)}

\* tasks of nodes 1 and 2 open, bind and close sockets, and close descriptors
\* that are not theirs
FdNext ==
    \/ \E node \in {1, 2}, ty \in SocketTypes : socket(node, ty)
    \/ \E node \in {1, 2}, fd \in Fds, addr \in FdBinds : bind(node, fd, addr)
    \/ \E node \in {1, 2}, fd \in Fds : close(node, fd)

FdSpec == Init /\ [][FdNext]_vars

\* ---- mod.rs: NetSim, the links ----

\* Network::clog_link(a, b) and Network::unclog_link(a, b), called directly
clog_link(a, b) ==
    /\ clogged_links' = Network_clog_link(clogged_links, a, b)
    /\ last_call' = [op |-> "clog_link", a |-> a, b |-> b]
    /\ UNCHANGED <<host_state, host_fds,
                   endpoints, heap, clogged, packet_loss_rate, msg_count, timers,
                   receivers, sent, delivered, sockets, next_ephemeral,
                   next_port_map, handles>>

unclog_link(a, b) ==
    /\ clogged_links' = Network_unclog_link(clogged_links, a, b)
    /\ last_call' = [op |-> "unclog_link", a |-> a, b |-> b]
    /\ UNCHANGED <<host_state, host_fds,
                   endpoints, heap, clogged, packet_loss_rate, msg_count, timers,
                   receivers, sent, delivered, sockets, next_ephemeral,
                   next_port_map, handles>>

\* NetSim::connect2
connect2(node1, node2) ==
    /\ clogged_links' =
           Network_unclog_link(
               Network_unclog_link(clogged_links, node1, node2), node2, node1)
    /\ last_call' = [op |-> "connect2", a |-> node1, b |-> node2]
    /\ UNCHANGED <<host_state, host_fds,
                   endpoints, heap, clogged, packet_loss_rate, msg_count, timers,
                   receivers, sent, delivered, sockets, next_ephemeral,
                   next_port_map, handles>>

\* disconnect2 that clogs the link from node1 to node2 twice
disconnect2_one_way(node1, node2) ==
    /\ clogged_links' =
           Network_clog_link(
               Network_clog_link(clogged_links, node1, node2), node1, node2)
    /\ last_call' = [op |-> "disconnect2", a |-> node1, b |-> node2]
    /\ UNCHANGED <<host_state, host_fds,
                   endpoints, heap, clogged, packet_loss_rate, msg_count, timers,
                   receivers, sent, delivered, sockets, next_ephemeral,
                   next_port_map, handles>>

\* NetSim::disconnect2
disconnect2(node1, node2) ==
    /\ clogged_links' =
           Network_clog_link(
               Network_clog_link(clogged_links, node1, node2), node2, node1)
    /\ last_call' = [op |-> "disconnect2", a |-> node1, b |-> node2]
    /\ UNCHANGED <<host_state, host_fds,
                   endpoints, heap, clogged, packet_loss_rate, msg_count, timers,
                   receivers, sent, delivered, sockets, next_ephemeral,
                   next_port_map, handles>>

\* three nodes, each with an Endpoint bound to port 1 of its IP, as three
\* calls of bind leave them
LinkInit ==
    /\ endpoints = [a \in Addrs |-> 0]
    /\ heap = [e \in 1..3 |-> NewEndpoint]
    /\ clogged = {}
    /\ packet_loss_rate = 0
    /\ msg_count = 0
    /\ timers = {}
    /\ receivers = <<>>
    /\ sent = <<>>
    /\ delivered = <<>>
    /\ sockets = [k \in {<<n, SockAddr(NodeIp(n), 1)>> : n \in Nodes} |-> k[1]]
    /\ clogged_links = {}
    /\ next_ephemeral = [n \in Nodes |-> 0]
    /\ next_port_map = [n \in Nodes |-> Vacant]
    /\ handles = [h \in 1..3 |->
                     [node |-> h, addr |-> SockAddr(NodeIp(h), 1), open |-> TRUE,
                   peer |-> None]]
    /\ last_call = [op |-> "none"]
    /\ host_state = <<>>
    /\ host_fds = {}

LinkNext ==
    \/ \E a \in Nodes : \E b \in Nodes \ {a} : clog_link(a, b)
    \/ \E a \in Nodes : \E b \in Nodes \ {a} : unclog_link(a, b)
    \/ \E a \in Nodes : \E b \in Nodes \ {a} : connect2(a, b)
    \/ \E a \in Nodes : \E b \in Nodes \ {a} : disconnect2(a, b)
    \/ \E h \in 1..Len(handles), d \in 1..Len(handles) :
           Len(sent) < MaxLinkSends
           /\ send_to_raw_sync(h, handles[d].addr, 1, FALSE)
    \/ \E t \in timers : sim_timer(t)

LinkSpec == LinkInit /\ [][LinkNext]_vars

\* ---- mod.rs: the Endpoint facade, loopback addresses ----

\* the addresses of test localhost: 127.0.0.1:1 and port 1 of either node
LoopRequests == {SockAddr(Localhost, 1), SockAddr(Unspecified, 1)}
LoopDsts == {SockAddr(Localhost, 1), SockAddr(NodeIp(1), 1), SockAddr(NodeIp(2), 1)}

\* two nodes that bind the loopback address and their own, and send to all
LoopNext ==
    \/ \E node \in {1, 2}, req \in LoopRequests : bind_sync(node, req)
    \/ \E h \in 1..Len(handles), dst \in LoopDsts :
           Len(sent) < MaxLoopSends
           /\ send_to_raw_sync(h, dst, 1, FALSE)
    \/ \E h \in 1..Len(handles) :
           Len(receivers) < MaxLoopRecvs /\ recv_from_raw(h, 1)
    \/ \E t \in timers : sim_timer(t)

LoopSpec == Init /\ [][LoopNext]_vars

\* ---- what the histories say ----

\* the senders registered in a mailbox, all and those of one tag
Registered(mb) == {mb.registered[i].tx : i \in 1..Len(mb.registered)}
RegisteredFor(mb, tag) ==
    {mb.registered[i].tx :
        i \in {j \in 1..Len(mb.registered) : mb.registered[j].tag = tag}}

\* the pending messages of a mailbox
Pending(mb) == {mb.msgs[j] : j \in 1..Len(mb.msgs)}

\* the place of a message in the order of deliveries
DeliveryIndex(msg) == CHOOSE i \in 1..Len(delivered) : delivered[i].msg = msg

\* the message a send call made
MsgOf(i) == [tag |-> sent[i].tag, data |-> i, from |-> sent[i].src]

\* the send call passed admission
Admitted(i) == sent[i].ep # 0 /\ ~sent[i].clog /\ ~sent[i].fault

\* how many places hold the message with this payload
Copies(id) ==
    Cardinality({t \in timers : t.msg.data = id})
    + Cardinality({p \in {<<e, j>> : e \in 1..Len(heap), j \in 1..MaxSends + MaxFrames} :
           p[2] <= Len(heap[p[1]].msgs) /\ heap[p[1]].msgs[p[2]].data = id})
    + Cardinality({r \in 1..Len(receivers) : receivers[r].msg.data = id})

\* ---- C1 ----

\* C1: a message returned by a recv issued with tag T on address D has tag
\* exactly T, was sent to D, and its `from` is the source address of the send
\* that created it.
C1_RecvReturnsWhatWasSent ==
    \A r \in 1..Len(receivers) :
        receivers[r].state = "ready" =>
            LET m == receivers[r].msg IN
            /\ m.data \in 1..Len(sent)
            /\ m = MsgOf(m.data)
            /\ m.tag = receivers[r].tag
            /\ sent[m.data].dst = receivers[r].addr

\* a recv has returned a message that came from the other address while a
\* message of the other tag is still pending in the same mailbox
C1_Witness ==
    \E r \in 1..Len(receivers) :
        /\ receivers[r].state = "ready"
        /\ receivers[r].msg.from # receivers[r].addr
        /\ endpoints[receivers[r].addr] # 0
        /\ \E p \in Pending(heap[endpoints[receivers[r].addr]]) :
               p.tag # receivers[r].tag

\* ---- C2 ----

\* C2: cancel-and-retry.  When a recv(T) on an endpoint was dropped, a message
\* with tag T delivered to that endpoint is not consumed by the dropped
\* receiver: while the endpoint stays bound the message is pending for the
\* next recv(T) or has been returned by one.
C2_CancelAndRetry ==
    \A i \in 1..Len(delivered) :
        LET d == delivered[i] IN
        ( /\ \E a \in Addrs : endpoints[a] = d.ep
          /\ \E r \in 1..Len(receivers) :
                 /\ receivers[r].state = "dropped"
                 /\ receivers[r].tag = d.msg.tag
                 /\ endpoints[receivers[r].addr] = d.ep )
        => \/ d.msg \in Pending(heap[d.ep])
           \/ \E r \in 1..Len(receivers) : receivers[r].msg = d.msg

\* ---- C3 ----

\* C3: Mailbox::deliver never loses a message.  A step that delivers msg
\* either completes exactly one receiver, one that was registered with msg's
\* tag and still alive, and leaves the pending list as it was, or completes
\* no receiver and appends msg to the pending list, and then no sender with
\* that tag stays registered.  Apart from the receiver served, only senders
\* with msg's tag whose receiver was dropped are removed.
C3_DeliverNeverLoses ==
    [][Len(delivered') = Len(delivered) + 1 =>
        LET d == delivered'[Len(delivered')]
            old == heap[d.ep]
            new == heap'[d.ep]
            served == {r \in 1..Len(receivers) : receivers'[r] # receivers[r]}
            gone == Registered(old) \ Registered(new)
        IN /\ \/ /\ new.msgs = old.msgs
                 /\ \E r \in RegisteredFor(old, d.msg.tag) \cap Live(receivers) :
                        /\ served = {r}
                        /\ receivers'[r] = [receivers[r] EXCEPT !.state = "ready",
                                                                 !.msg = d.msg]
              \/ /\ new.msgs = Append(old.msgs, d.msg)
                 /\ served = {}
                 /\ RegisteredFor(new, d.msg.tag) = {}
           /\ Len(receivers') = Len(receivers)
           /\ Registered(new) \subseteq Registered(old)
           /\ gone \ served \subseteq
                  RegisteredFor(old, d.msg.tag) \ Live(receivers)
    ]_vars

\* a delivered message is pending although a recv for its tag had been
\* registered: that receiver was dropped, and its sender is registered no more
C3_Witness ==
    \E m \in Pending(heap[1]) :
        \E r \in 1..Len(receivers) :
            /\ receivers[r].state = "dropped"
            /\ receivers[r].tag = m.tag
            /\ r \notin Registered(heap[1])

\* ---- C4 ----

\* C4: in no mailbox is a message with tag T pending while a sender for tag
\* T is registered.
C4_NoPendingWithWaiter ==
    \A e \in 1..Len(heap) :
        \A m \in Pending(heap[e]) : RegisteredFor(heap[e], m.tag) = {}

\* a mailbox holds a pending message and a registered sender, of different tags
C4_Witness ==
    \E e \in 1..Len(heap) :
        \E m \in Pending(heap[e]) :
            \E r \in Registered(heap[e]) : receivers[r].tag # m.tag

\* ---- C5 ----

\* C5: pending messages are FIFO per tag: a recv(T) never returns a message
\* while a message with tag T that was delivered to the same mailbox
\* earlier is still pending.
C5_PendingFifoPerTag ==
    \A r \in 1..Len(receivers) :
        receivers[r].state = "ready" =>
            \A e \in 1..Len(heap) :
                \A p \in Pending(heap[e]) :
                    ( /\ p.tag = receivers[r].msg.tag
                      /\ delivered[DeliveryIndex(receivers[r].msg)].ep = e )
                    => DeliveryIndex(receivers[r].msg) < DeliveryIndex(p)

\* ---- C6 ----

\* C6: waiters are served FIFO per tag: of two recv(T) calls on a mailbox
\* whose receivers are kept, the later one is not served while the earlier
\* one still waits.
C6_WaitersFifoPerTag ==
    \A w1, w2 \in 1..Len(receivers) :
        ( /\ w1 < w2
          /\ receivers[w1].tag = receivers[w2].tag
          /\ receivers[w1].addr = receivers[w2].addr
          /\ receivers[w1].state = "waiting"
          /\ \E e \in 1..Len(heap) : w1 \in Registered(heap[e]) )
        => receivers[w2].state # "ready"

\* ---- C7 ----

\* C7: at-most-once delivery: every sent message is in at most one place (a
\* timer, a pending list, a completed receiver), so it is returned by at most
\* one recv and never both pending and returned.
C7_AtMostOnce == \A id \in 1..Len(sent) : Copies(id) <= 1

\* a recv has returned a message while a second recv for the same tag on the
\* same address still waits
C7_Witness ==
    \E r1, r2 \in 1..Len(receivers) :
        /\ receivers[r1].state = "ready"
        /\ receivers[r2].state = "waiting"
        /\ receivers[r1].tag = receivers[r2].tag
        /\ receivers[r1].addr = receivers[r2].addr

\* ---- C8 ----

\* C8: a send made while packet_loss_rate is 0, neither end is clogged and
\* the destination has a mailbox schedules exactly one timer, for that
\* mailbox, with the tag, source address and payload of the call; and a timer
\* that runs leaves the set alone and performs one deliver, of its message to
\* its mailbox; nothing else removes a timer or delivers.
C8_OneTimerOneDeliver ==
    [][/\ ( /\ Len(sent') = Len(sent) + 1
            /\ packet_loss_rate = 0
            /\ sent'[Len(sent')].src \notin clogged
            /\ sent'[Len(sent')].dst \notin clogged
            /\ endpoints[sent'[Len(sent')].dst] # 0 )
          => LET i == Len(sent')
                 t == [ep |-> endpoints[sent'[i].dst],
                       msg |-> [tag |-> sent'[i].tag, data |-> i,
                                from |-> sent'[i].src]]
             IN t \notin timers /\ timers' = timers \cup {t}
       /\ (Len(sent') = Len(sent) + 1) => delivered' = delivered
       /\ (timers \ timers' # {} \/ delivered' # delivered)
          => \E t \in timers :
                 /\ timers' = timers \ {t}
                 /\ delivered' = Append(delivered, [ep |-> t.ep, msg |-> t.msg])
    ]_vars

\* with the loss rate 0 and nothing clogged, a message sent to a bound
\* address has been delivered and another one is still on its timer
C8_Witness ==
    /\ packet_loss_rate = 0
    /\ clogged = {}
    /\ \E i, j \in 1..Len(sent) :
           /\ Admitted(i) /\ Admitted(j)
           /\ \E k \in 1..Len(delivered) : delivered[k].msg = MsgOf(i)
           /\ \E t \in timers : t.msg = MsgOf(j)

\* ---- C9 ----

\* C9: msg_count is the number of send calls so far that passed admission
\* (destination present, neither end clogged, no fault drawn), which is the
\* number of timers scheduled so far.
C9_MsgCountIsAdmitted ==
    /\ msg_count = Cardinality({i \in 1..Len(sent) : Admitted(i)})
    /\ msg_count = Cardinality(timers) + Len(delivered)

\* one send was admitted and another was dropped
C9_Witness ==
    /\ msg_count = 1
    /\ \E i, j \in 1..Len(sent) :
           /\ Admitted(i)
           /\ sent[j].ep # 0 /\ (sent[j].clog \/ sent[j].fault)

\* ---- C10 ----

\* C10: a send made while its source or its destination is clogged is never
\* delivered: no timer carries its message, no deliver was made of it, no
\* mailbox holds it and no recv has returned it.
C10_CloggedSendNeverDelivered ==
    \A i \in 1..Len(sent) : sent[i].clog => Copies(i) = 0 /\
        \A k \in 1..Len(delivered) : delivered[k].msg.data # i

\* a send to a bound, clogged destination was made, the clog is gone again,
\* and a recv on that destination for its tag is waiting
C10_Witness ==
    \E i \in 1..Len(sent) :
        /\ sent[i].clog
        /\ sent[i].ep # 0
        /\ endpoints[sent[i].dst] = sent[i].ep
        /\ clogged = {}
        /\ \E r \in 1..Len(receivers) :
               /\ receivers[r].state = "waiting"
               /\ receivers[r].addr = sent[i].dst
               /\ receivers[r].tag = sent[i].tag

\* ---- C12 ----

\* C12: a send that is dropped (no mailbox at the destination, an end
\* clogged, or a fault drawn) returns like any other and changes no mailbox,
\* no timer, no counter and no receiver: only the history records it.
C12_DroppedSendIsSilent ==
    [][Len(sent') = Len(sent) + 1 =>
        LET s == sent'[Len(sent')] IN
        (s.ep = 0 \/ s.clog \/ s.fault) =>
            UNCHANGED <<endpoints, heap, clogged, packet_loss_rate, msg_count,
                        timers, receivers, delivered>>
    ]_vars

\* a send to an address without mailbox and a send dropped by a clog or a
\* fault were made from bound sources, and nothing was counted or scheduled
C12_Witness ==
    /\ msg_count = 0
    /\ timers = {}
    /\ \E i, j \in 1..Len(sent) :
           /\ sent[i].ep = 0
           /\ sent[j].ep # 0 /\ (sent[j].clog \/ sent[j].fault)

\* ---- C13 ----

\* C13: when a mailbox is removed every recv parked on it resolves with an
\* error: a recv that waits, and whose mailbox is bound to no address after a
\* step, is Canceled after that step (so it neither stays suspended nor is
\* given a message later, by a timer that was in flight or otherwise).
C13_RemovalFailsParkedRecvs ==
    [][\A r \in 1..Len(receivers) :
        ( /\ receivers[r].state = "waiting"
          /\ \A a \in Addrs : endpoints'[a] # receivers[r].ep )
        => receivers'[r].state = "canceled"
    ]_vars

\* ---- C14 ----

\* C14: a recv issued on an address that had a mailbox before (an earlier
\* recv was accepted there) and has none now fails with BrokenPipe, that is,
\* its receiver resolves as Canceled: the call does not panic, does not park
\* and returns no message.
C14_RecvAfterRemovalIsBrokenPipe ==
    [][Len(receivers') = Len(receivers) + 1 =>
        LET new == receivers'[Len(receivers')] IN
        ( /\ endpoints[new.addr] = 0
          /\ \E r \in 1..Len(receivers) :
                 receivers[r].addr = new.addr /\ receivers[r].ep # 0 )
        => new.state = "canceled"
    ]_vars

\* ---- C16 ----

\* C16: a mailbox installed by binding an address again is isolated from the
\* binding before it: a recv returns, and a mailbox holds, only messages that
\* were sent while the address was bound to that very mailbox.
C16_RebindIsIsolated ==
    /\ \A r \in 1..Len(receivers) :
           receivers[r].state = "ready" =>
               sent[receivers[r].msg.data].ep = receivers[r].ep
    /\ \A e \in 1..Len(heap) :
           \A m \in Pending(heap[e]) : sent[m.data].ep = e

\* a message sent to the old binding of an address has been delivered, the
\* address is bound again, and a recv for the message's tag on the new
\* binding still waits
C16_Witness ==
    \E i \in 1..Len(sent) :
        /\ sent[i].ep # 0
        /\ endpoints[sent[i].dst] \notin {0, sent[i].ep}
        /\ \E k \in 1..Len(delivered) : delivered[k].msg = MsgOf(i)
        /\ \E r \in 1..Len(receivers) :
               /\ receivers[r].ep = endpoints[sent[i].dst]
               /\ receivers[r].tag = sent[i].tag
               /\ receivers[r].state = "waiting"

\* ---- C20 ----

\* C20: the first next_local_port call of a node returns 1; each later call
\* returns a value that is not 0 and was not returned before for the node (the
\* counter holds the last value returned, and the values returned before are
\* those up to it, so the new value is greater); the counters of the other
\* nodes stay as they are.
C20_PortsFreshAndNonZero ==
    [][\A n \in Nodes :
        next_port_map'[n] # next_port_map[n] =>
            /\ last_call'.ret = next_port_map'[n]
            /\ next_port_map[n] = Vacant => last_call'.ret = U32(1)
            /\ last_call'.ret # U32(0)
            /\ next_port_map[n] # Vacant =>
                   U32Less(next_port_map[n], last_call'.ret)
            /\ \A m \in Nodes \ {n} : next_port_map'[m] = next_port_map[m]
    ]_vars

\* ---- the msim API: what a step is ----

\* the step is a call of bind
BindStep ==
    /\ last_call'.op = "bind"
    /\ last_call' # last_call \/ Len(handles') > Len(handles)

\* the address a bind request for the node means once the IP is normalized
Normalized(node, req) ==
    SockAddr(IF req.ip = Unspecified THEN NodeIp(node) ELSE req.ip, req.port)

\* ---- C15 ----

\* C15: a bind that asks for the address of an Endpoint that was dropped, on
\* the same node, while no other Endpoint of that node and address is in
\* use, succeeds: it installs a fresh, empty mailbox for the address and
\* returns an Endpoint with that address.
C15_RebindAfterDrop ==
    [][( /\ BindStep
         /\ \E h \in 1..Len(handles) :
                /\ ~handles[h].open
                /\ handles[h].node = last_call'.node
                /\ handles[h].addr = last_call'.arg
         /\ \A h \in 1..Len(handles) :
                ( handles[h].node = last_call'.node
                  /\ handles[h].addr = last_call'.arg ) => ~handles[h].open )
       => /\ last_call'.ret = "Ok"
          /\ Len(handles') = Len(handles) + 1
          /\ handles'[Len(handles')] =
                 [node |-> last_call'.node, addr |-> last_call'.arg,
                  open |-> TRUE,
                   peer |-> None]
          /\ <<last_call'.node, last_call'.arg>> \in DOMAIN sockets'
          /\ sockets'[<<last_call'.node, last_call'.arg>>] = Len(heap) + 1
          /\ heap' = Append(heap, NewEndpoint)
    ]_vars

\* the last call bound, with success, the address of an Endpoint of the same
\* node that had been dropped
C15_Witness ==
    /\ last_call.op = "bind"
    /\ last_call.ret = "Ok"
    /\ \E h \in 1..Len(handles) - 1 :
           /\ ~handles[h].open
           /\ handles[h].node = handles[Len(handles)].node
           /\ handles[h].addr = handles[Len(handles)].addr
           /\ handles[Len(handles)].open
           /\ last_call.addr = handles[h].addr

\* ---- C17 ----

\* C17: a bind whose IP is specified, is not the node's and is not loopback
\* fails with AddrNotAvailable and leaves the table, the mailboxes, the
\* receivers and the Endpoints as they were.
C17_ForeignIpNotAvailable ==
    [][( /\ BindStep
         /\ last_call'.arg.ip \notin
                {Unspecified, Localhost, NodeIp(last_call'.node)} )
       => /\ last_call'.ret = "AddrNotAvailable"
          /\ UNCHANGED <<sockets, heap, receivers, handles>>
    ]_vars

\* the last call was refused with AddrNotAvailable while the node had an
\* address bound
C17_Witness ==
    /\ last_call.op = "bind"
    /\ last_call.ret = "AddrNotAvailable"
    /\ \E k \in DOMAIN sockets : k[1] = last_call.node

\* ---- C18 ----

\* C18: after a successful bind the new Endpoint's local_addr is the address
\* bind resolved: the requested IP, or the node's IP when the request was
\* unspecified; the requested port, or a non-zero port when the request was 0;
\* and that address has a mailbox of the node.  No Endpoint has an
\* unspecified IP or the port 0.
C18_BindNormalizes ==
    /\ ( last_call.op = "bind" /\ last_call.ret = "Ok" ) =>
           /\ Len(handles) > 0
           /\ handles[Len(handles)].node = last_call.node
           /\ local_addr(Len(handles)) = last_call.addr
           /\ last_call.addr.ip = Normalized(last_call.node, last_call.arg).ip
           /\ last_call.arg.port # 0 => last_call.addr.port = last_call.arg.port
           /\ mailbox_of(last_call.node, last_call.addr) # 0
    /\ \A h \in 1..Len(handles) :
           /\ local_addr(h).ip \in {NodeIp(handles[h].node), Localhost}
           /\ local_addr(h).port # 0

\* a bind of the unspecified address with port 0 has succeeded on a node
\* that has an Endpoint on loopback
C18_Witness ==
    /\ last_call.op = "bind"
    /\ last_call.ret = "Ok"
    /\ last_call.arg = SockAddr(Unspecified, 0)
    /\ \E h \in 1..Len(handles) :
           /\ handles[h].node = last_call.node
           /\ local_addr(h).ip = Localhost

\* ---- C19 ----

\* C19: a bind whose address, once the IP is normalized, has a mailbox on the
\* node fails with AddrInUse and leaves the table, every mailbox with its
\* pending messages and waiters, the receivers and the Endpoints as they were.
C19_BoundAddrInUse ==
    [][( /\ BindStep
         /\ last_call'.arg.ip \in
                {Unspecified, Localhost, NodeIp(last_call'.node)}
         /\ last_call'.arg.port # 0
         /\ mailbox_of(last_call'.node,
                       Normalized(last_call'.node, last_call'.arg)) # 0 )
       => /\ last_call'.ret = "AddrInUse"
          /\ UNCHANGED <<sockets, heap, receivers, handles, timers>>
    ]_vars

\* the last call was refused with AddrInUse, and the mailbox of the address
\* holds a pending message and a parked waiter
C19_Witness ==
    /\ last_call.op = "bind"
    /\ last_call.ret = "AddrInUse"
    /\ LET e == mailbox_of(last_call.node, last_call.addr) IN
       /\ e # 0
       /\ heap[e].msgs # <<>>
       /\ \E r \in Registered(heap[e]) : receivers[r].state = "waiting"

\* ---- C11 ----

\* what the histories say of the links: a send between two nodes made while
\* the link from the source's node to the destination's was clogged was
\* dropped, and one made while that link was clear was admitted, whatever the
\* link back; msg_count counts the admitted ones
LinkAdmission ==
    /\ \A i \in 1..Len(sent) :
           /\ (sent[i].sn # sent[i].dn /\ sent[i].fwd) => Copies(i) = 0
           /\ ( /\ sent[i].ep # 0
                /\ ~sent[i].fwd
                /\ ~sent[i].clog
                /\ ~sent[i].fault ) => Copies(i) = 1
    /\ msg_count = Cardinality({i \in 1..Len(sent) : Copies(i) = 1})

\* C11: link clogs are directed.  clog_link(a, b) adds the link from a to b
\* and no other, unclog_link(a, b) removes it and no other; disconnect2(a, b)
\* adds the links from a to b and from b to a, connect2(a, b) removes both,
\* and the links of other pairs stay as they are; no other step changes the
\* links; and sends are dropped and admitted by the link in their direction.
C11_LinkClogsAreDirected ==
    [][/\ LinkAdmission'
       /\ IF last_call' = last_call \/ last_call'.op = "send_to_raw"
          THEN clogged_links' = clogged_links
          ELSE LET a == last_call'.a
                   b == last_call'.b
               IN /\ last_call'.op = "clog_link" =>
                         clogged_links' = clogged_links \cup {<<a, b>>}
                  /\ last_call'.op = "unclog_link" =>
                         clogged_links' = clogged_links \ {<<a, b>>}
                  /\ last_call'.op = "disconnect2" =>
                         clogged_links' = clogged_links \cup {<<a, b>>, <<b, a>>}
                  /\ last_call'.op = "connect2" =>
                         clogged_links' = clogged_links \ {<<a, b>>, <<b, a>>}
    ]_vars

\* only the link from a to b is clogged, and a send from b's node to a's,
\* made while it was, was admitted
C11_Witness ==
    \E a \in Nodes, b \in Nodes :
        /\ clogged_links = {<<a, b>>}
        /\ \E j \in 1..Len(sent) :
               /\ sent[j].sn = b /\ sent[j].dn = a
               /\ sent[j].rev /\ ~sent[j].fwd /\ Copies(j) = 1

\* ---- C27 ----

\* the pending messages of the object e whose tag is not `tag`, before and
\* after a step, are the same messages in the same number
OtherTagsStay(e, tag) ==
    /\ \A i \in 1..Len(heap[e].msgs) :
           heap[e].msgs[i].tag # tag =>
               \E j \in 1..Len(heap'[e].msgs) : heap'[e].msgs[j] = heap[e].msgs[i]
    /\ Cardinality({i \in 1..Len(heap[e].msgs) : heap[e].msgs[i].tag # tag})
           = Cardinality({j \in 1..Len(heap'[e].msgs) : heap'[e].msgs[j].tag # tag})

KeysOf(e) == {k \in DOMAIN sockets : sockets[k] = e}

ApiStep ==
    \/ last_call' # last_call
    \/ Len(sent') > Len(sent)
    \/ Len(receivers') > Len(receivers)

\* the step changed nothing but the record of the call
NothingButTheRecord ==
    UNCHANGED <<endpoints, heap, clogged, packet_loss_rate, msg_count, timers,
                receivers, sent, delivered, sockets, clogged_links,
                next_ephemeral, next_port_map, handles, host_state,
                host_fds>>

\* C21: on an Endpoint without peer, peer_addr, send, recv, send_raw and
\* recv_raw fail with NotConnected, and the failing call sends nothing,
\* registers no waiter and consumes no pending message; udp_tag fails with
\* NotConnected exactly when the port is 0 and returns the port otherwise.
C21_NotConnectedWithoutPeer ==
    [][(ApiStep /\ "h" \in DOMAIN last_call') =>
          LET h == last_call'.h IN
          /\ ( /\ last_call'.op \in {"peer_addr", "send", "recv", "send_raw",
                                      "recv_raw"}
               /\ handles[h].peer = None )
                 => last_call'.ret = "NotConnected" /\ NothingButTheRecord
          /\ last_call'.ret = "NotConnected" =>
                 /\ NothingButTheRecord
                 /\ IF last_call'.op = "udp_tag" THEN handles[h].addr.port = 0
                    ELSE handles[h].peer = None
          /\ last_call'.op = "udp_tag" =>
                 /\ NothingButTheRecord
                 /\ last_call'.ret = "NotConnected" <=> handles[h].addr.port = 0
                 /\ last_call'.ret = "Ok" => last_call'.tag = handles[h].addr.port
    ]_vars

\* recv failed with NotConnected on a bound Endpoint whose mailbox has a
\* pending message with the tag, which is still there
C21_Witness ==
    /\ last_call.op = "recv"
    /\ last_call.ret = "NotConnected"
    /\ handles[last_call.h].peer = None
    /\ LET e == mailbox_of(handles[last_call.h].node, handles[last_call.h].addr)
       IN e # 0 /\ \E i \in 1..Len(heap[e].msgs) : heap[e].msgs[i].tag = 1

\* ---- C22 ----

\* C22: on a connected Endpoint, recv and recv_raw never return a message
\* whose origin is not the stored peer, and the assertion that the origin is
\* the peer never fails, whoever sends to the Endpoint's local address.
C22_RecvOnlyFromPeer ==
    \A r \in 1..Len(receivers) :
        ("api" \in DOMAIN receivers[r] /\ receivers[r].api \in {"recv", "recv_raw"})
            => /\ receivers[r].state # "panic_not_peer"
               /\ receivers[r].state = "Ok" => receivers[r].from = receivers[r].peer

\* ---- C23 ----

\* the connected Endpoints
Connected == {h \in 1..Len(handles) : handles[h].peer # None}

\* what the histories say of the connected Endpoints: a message one of them
\* sent to its peer has its local address as origin wherever it is, a send
\* from the node of the peer to that local address is bound for the mailbox
\* of the connected Endpoint, and a recv of the connected Endpoint that got
\* a message from the peer returned it
ConnectedRoundTrip ==
    \A c \in Connected :
        LET mb == mailbox_of(handles[c].node, handles[c].addr) IN
        /\ mb # 0
        /\ \A i \in 1..Len(sent) :
               /\ sent[i].src = handles[c].addr /\ sent[i].sn = handles[c].node
                      => /\ \A t \in timers : t.msg.data = i =>
                                t.msg.from = handles[c].addr /\ t.msg.tag = sent[i].tag
                         /\ \A d \in 1..Len(delivered) :
                                delivered[d].msg.data = i =>
                                    /\ delivered[d].msg.from = handles[c].addr
                                    /\ delivered[d].ep =
                                          mailbox_of(owner(handles[c].node, sent[i].dst),
                                                     sent[i].dst)
               /\ ( /\ sent[i].dst = handles[c].addr
                    /\ sent[i].sn = owner(handles[c].node, handles[c].peer)
                    /\ handles[c].addr.ip = Localhost => sent[i].sn = handles[c].node )
                      => sent[i].ep = mb
        /\ \A r \in 1..Len(receivers) :
               ( /\ "api" \in DOMAIN receivers[r]
                 /\ receivers[r].api = "recv"
                 /\ receivers[r].ep = mb
                 /\ receivers[r].state \notin {"waiting", "ready"}
                 /\ "bytes" \in DOMAIN receivers[r].msg
                 /\ receivers[r].msg.from = handles[c].peer )
                   => /\ receivers[r].state = "Ok"
                      /\ receivers[r].msg.tag = receivers[r].tag
                      /\ receivers[r].len = 1
                      /\ receivers[r].buf_after = receivers[r].msg.bytes

\* C23: a connect that succeeds binds a fresh address of the node with an
\* ephemeral port that is not 0, on the loopback IP when the peer is loopback
\* and on the node's IP otherwise, and keeps the peer; a message the
\* Endpoint sends to the peer arrives there with the local address as
\* origin, and a reply to that origin with the same tag is what recv returns.
C23_ConnectSendRecv ==
    [][/\ ( /\ last_call'.op = "connect"
            /\ last_call' # last_call \/ Len(handles') > Len(handles)
            /\ last_call'.ret = "Ok" ) =>
              LET c == handles'[Len(handles')]
                  node == last_call'.node
                  peer == last_call'.arg
              IN /\ Len(handles') = Len(handles) + 1
                 /\ c.node = node /\ c.peer = peer /\ c.open
                 /\ c.addr = last_call'.addr
                 /\ c.addr.port # 0
                 /\ c.addr.ip = IF peer.ip = Localhost THEN Localhost
                                ELSE NodeIp(node)
                 /\ <<node, c.addr>> \notin DOMAIN sockets
                 /\ <<node, c.addr>> \in DOMAIN sockets'
                 /\ heap'[sockets'[<<node, c.addr>>]] = NewEndpoint
                 /\ \A h \in 1..Len(handles) :
                        handles[h].node = node => handles[h].addr # c.addr
       /\ ConnectedRoundTrip'
    ]_vars

\* a connected Endpoint sent to its peer, the message arrived in the peer's
\* mailbox, the Endpoint bound there replied to the origin of the message,
\* and recv on the connected Endpoint returned the reply
C23_Witness ==
    \E c \in Connected, p \in 1..Len(handles), i, j \in 1..Len(sent) :
        /\ handles[p].addr = handles[c].peer
        /\ sent[i].src = handles[c].addr /\ sent[i].dst = handles[c].peer
        /\ \E d \in 1..Len(delivered) :
               /\ delivered[d].msg.data = i
               /\ delivered[d].ep = mailbox_of(handles[p].node, handles[p].addr)
               /\ sent[j].dst = delivered[d].msg.from
        /\ sent[j].src = handles[p].addr
        /\ \E r \in 1..Len(receivers) :
               /\ "api" \in DOMAIN receivers[r]
               /\ receivers[r].api = "recv"
               /\ receivers[r].state = "Ok"
               /\ receivers[r].msg.data = j
               /\ receivers[r].addr = handles[c].addr

\* ---- C24 ----

\* C24: round trip.  A recv_from that returned a message returned the
\* address of its sender, the tag asked for, and as length the smaller of the
\* length of the buffer and the length of the bytes that were sent; the
\* buffer starts with that many of the bytes sent and is as it was beyond.
C24_RoundTrip ==
    \A r \in 1..Len(receivers) :
        ( /\ "api" \in DOMAIN receivers[r]
          /\ receivers[r].api = "recv_from"
          /\ receivers[r].state = "Ok" ) =>
            LET rx == receivers[r]
                s == sent[rx.msg.data]
                len == IF Len(rx.buf) < Len(s.bytes) THEN Len(rx.buf)
                       ELSE Len(s.bytes)
            IN /\ s.tag = rx.tag
               /\ s.ep = rx.ep
               /\ rx.from = s.src
               /\ rx.len = len
               /\ Len(rx.buf_after) = Len(rx.buf)
               /\ \A k \in 1..Len(rx.buf) :
                      rx.buf_after[k] = IF k <= len THEN s.bytes[k] ELSE rx.buf[k]

\* recv_from returned a message that is longer than the buffer
C24_Witness ==
    \E r \in 1..Len(receivers) :
        /\ "api" \in DOMAIN receivers[r]
        /\ receivers[r].api = "recv_from"
        /\ receivers[r].state = "Ok"
        /\ 0 < receivers[r].len
        /\ receivers[r].len < Len(sent[receivers[r].msg.data].bytes)

\* ---- C25 ----

\* C25: recv_from_raw_sync returns the first pending message with the tag
\* and removes it, and fails with WouldBlock when none is pending; the failed
\* call registers no waiter and leaves the mailbox as it is; and a message
\* delivered when no receiver waits for its tag is pending afterwards.
C25_RecvSyncNeverParks ==
    [][/\ ( /\ last_call'.op = "recv_from_raw_sync"
            /\ UNCHANGED <<timers, sent>> ) =>
              LET h == last_call'.h
                  tag == last_call'.tag
                  e == mailbox_of(handles[h].node, handles[h].addr)
                  idx == position(heap[e].msgs, tag)
              IN IF idx = 0
                 THEN last_call'.ret = "WouldBlock" /\ NothingButTheRecord
                 ELSE /\ last_call'.ret = "Ok"
                      /\ last_call'.msg = heap[e].msgs[idx]
                      /\ \A i \in 1..(idx - 1) : heap[e].msgs[i].tag # tag
                      /\ heap' = [heap EXCEPT ![e].msgs = remove_at(@, idx)]
                      /\ UNCHANGED <<receivers, timers, sent, delivered, sockets,
                                     msg_count, handles>>
       /\ Len(delivered') = Len(delivered) + 1 =>
              LET d == delivered'[Len(delivered')] IN
              (\A r \in Live(receivers) :
                   receivers[r].ep # d.ep \/ receivers[r].tag # d.msg.tag)
                  => heap'[d.ep].msgs = Append(heap[d.ep].msgs, d.msg)
    ]_vars

\* recv_from_raw_sync failed with WouldBlock, and a message with its tag that
\* was delivered afterwards is pending in the mailbox
C25_Witness ==
    /\ last_call.op = "recv_from_raw_sync"
    /\ last_call.ret = "WouldBlock"
    /\ LET e == mailbox_of(handles[last_call.h].node, handles[last_call.h].addr)
       IN \E i \in 1..Len(heap[e].msgs) : heap[e].msgs[i].tag = last_call.tag

\* ---- C29, C30 ----

\* a sendmsg that reached the network, and a call of recvmsg or of sendmsg
\* that returned without sending
ShimSent == Len(sent') = Len(sent) + 1
ShimReturned(op) == last_call'.op = op /\ UNCHANGED <<timers, sent>>

\* C29: sendmsg sends a datagram with the tag set to the port of its
\* destination and the bound address of the sending socket as origin; recvmsg
\* receives with the tag set to the port of its own socket: the datagram it
\* returns was sent to the address its socket is bound to, is taken from the
\* mailbox of that address, and names the sender's bound address as origin.
C29_ShimTagsArePorts ==
    [][/\ ShimSent =>
              LET m == sent'[Len(sent')]
                  h == last_call'.h
              IN /\ last_call'.op = "sendmsg"
                 /\ m.tag = m.dst.port
                 /\ m.src = handles[h].addr
                 /\ \E key \in DOMAIN host_state :
                        /\ key[1] = m.sn
                        /\ host_state[key].endpoint = Some(h)
       /\ (ShimReturned("recvmsg") /\ last_call'.ret = "len") =>
              LET key == <<last_call'.node, last_call'.fd>>
                  h == host_state[key].endpoint.some
                  e == mailbox_of(handles[h].node, handles[h].addr)
                  m == last_call'.msg
                  idx == position(heap[e].msgs, handles[h].addr.port)
              IN /\ m.tag = handles[h].addr.port
                 /\ sent[m.data].dst = handles[h].addr
                 /\ sent[m.data].dn = key[1]
                 /\ m.from = sent[m.data].src
                 /\ idx # 0
                 /\ m = heap[e].msgs[idx]
                 /\ heap' = [heap EXCEPT ![e].msgs = remove_at(@, idx)]
    ]_vars

\* recvmsg returned a datagram that a socket bound to another port sent, and
\* the sending socket, still bound, has nothing pending
C29_Witness ==
    /\ last_call.op = "recvmsg"
    /\ last_call.ret = "len"
    /\ last_call.msg.from.port # last_call.msg.tag
    /\ \E key \in DOMAIN host_state :
           /\ host_state[key].endpoint # None
           /\ LET h == host_state[key].endpoint.some
              IN /\ handles[h].addr = last_call.msg.from
                 /\ heap[mailbox_of(handles[h].node, handles[h].addr)].msgs = <<>>

\* C30: recvmsg on a bound UDP socket with no datagram pending returns -1
\* with EAGAIN and consumes nothing; on a descriptor without socket-state of
\* the current node recvmsg returns -1 with ENOTSOCK, and sendmsg returns -1
\* with EADDRNOTAVAIL and sends nothing: what is sent comes from a socket of
\* the sending node.
C30_ShimErrors ==
    [][/\ ShimReturned("recvmsg") =>
              LET key == <<last_call'.node, last_call'.fd>> IN
              IF key \notin DOMAIN host_state
              THEN /\ last_call'.ret = "-1"
                   /\ last_call'.errno = "ENOTSOCK"
                   /\ NothingButTheRecord
              ELSE ( /\ host_state[key].ty = "SOCK_DGRAM"
                     /\ host_state[key].endpoint # None
                     /\ LET h == host_state[key].endpoint.some
                        IN position(heap[mailbox_of(handles[h].node,
                                                    handles[h].addr)].msgs,
                                    handles[h].addr.port) = 0 )
                   => /\ last_call'.ret = "-1"
                      /\ last_call'.errno = "EAGAIN"
                      /\ NothingButTheRecord
       /\ ShimReturned("sendmsg") =>
              LET key == <<last_call'.node, last_call'.fd>> IN
              key \notin DOMAIN host_state
                  => /\ last_call'.ret = "-1"
                     /\ last_call'.errno = "EADDRNOTAVAIL"
                     /\ NothingButTheRecord
       /\ ShimSent =>
              \E key \in DOMAIN host_state :
                  /\ key[1] = sent'[Len(sent')].sn
                  /\ host_state[key].endpoint = Some(last_call'.h)
    ]_vars

\* recvmsg failed with ENOTSOCK on a descriptor that is a bound UDP socket of
\* the other node, with a datagram pending there
C30_Witness ==
    /\ last_call.op = "recvmsg"
    /\ last_call.errno = "ENOTSOCK"
    /\ \E key \in DOMAIN host_state :
           /\ key[2] = last_call.fd
           /\ key[1] # last_call.node
           /\ host_state[key].endpoint # None
           /\ LET h == host_state[key].endpoint.some
              IN heap[mailbox_of(handles[h].node, handles[h].addr)].msgs # <<>>


\* ---- C31, C32, C36 ----

\* the socket-state the call of the shim names, and a call by its name
CallKey == <<last_call'.node, last_call'.fd>>
ShimCall(op) == last_call'.op = op /\ (last_call' # last_call \/ host_state' # host_state \/ host_fds' # host_fds)

\* C31: close(fd) on node n removes the socket-state of <<n, fd>> and
\* returns 0 when the state exists, and else forwards to the real close and
\* changes no socket-state; the socket-states of the other keys stay as they
\* are.
C31_CloseRemovesOwnState ==
    [][ShimCall("close") =>
          /\ IF CallKey \in DOMAIN host_state
             THEN /\ host_state' = without(CallKey)
                  /\ last_call'.ret = "0"
             ELSE /\ ~last_call'.ours
                  /\ host_state' = host_state
          /\ \A k \in DOMAIN host_state \ {CallKey} :
                 k \in DOMAIN host_state' /\ host_state'[k] = host_state[k]
    ]_vars

\* C32: socket() creates a socket-state without endpoint; bind with an IPv6
\* address returns -1 with EADDRNOTAVAIL and changes nothing; a bind with an
\* IPv4 address that returns 0 attaches one new Endpoint, bound by the node
\* to the normalized address, to the socket-state, which had none; a bind on
\* a bound socket is fatal and leaves the Endpoint in place; and no step that
\* is not fatal changes the Endpoint a socket-state holds.
C32_BindAttachesOnce ==
    [][/\ (ShimCall("socket") /\ last_call'.ret = "fd") =>
              /\ CallKey \notin DOMAIN host_state
              /\ host_state'[CallKey] =
                     [ty |-> host_state'[CallKey].ty, endpoint |-> None]
       /\ ShimCall("bind") =>
              IF is_ipv6(last_call'.addr)
              THEN /\ last_call'.ret = "-1"
                   /\ last_call'.errno = "EADDRNOTAVAIL"
                   /\ NothingButTheRecord
              ELSE IF last_call'.ret = "0"
              THEN /\ CallKey \in DOMAIN host_state
                   /\ host_state[CallKey].endpoint = None
                   /\ handles' = Append(handles,
                          [node |-> CallKey[1],
                           addr |-> Normalized(CallKey[1], last_call'.addr),
                           open |-> TRUE, peer |-> None])
                   /\ host_state' = [host_state EXCEPT ![CallKey].endpoint =
                                        Some(Len(handles'))]
                   /\ LET k == <<CallKey[1],
                                  Normalized(CallKey[1], last_call'.addr)>>
                      IN k \in DOMAIN sockets' /\ sockets'[k] # 0
              ELSE /\ last_call'.ret = "panic"
                   /\ host_state' = host_state
                   /\ handles' = handles
       /\ ( /\ ShimCall("bind")
            /\ ~is_ipv6(last_call'.addr)
            /\ CallKey \in DOMAIN host_state
            /\ host_state[CallKey].endpoint # None ) => last_call'.ret = "panic"
       /\ \A k \in DOMAIN host_state \cap DOMAIN host_state' :
              host_state[k].endpoint # None =>
                  \/ host_state'[k].endpoint = host_state[k].endpoint
                  \/ last_call'.ret = "panic"
    ]_vars

\* a second bind on a bound socket was fatal, and the socket holds the open
\* Endpoint of the first bind
C32_Witness ==
    /\ last_call.op = "bind"
    /\ last_call.ret = "panic"
    /\ <<last_call.node, last_call.fd>> \in DOMAIN host_state
    /\ LET s == host_state[<<last_call.node, last_call.fd>>]
       IN /\ s.endpoint # None
          /\ handles[s.endpoint.some].open
          /\ mailbox_of(last_call.node, handles[s.endpoint.some].addr) # 0

\* C36: socket() never registers a key <<node, fd>> that has a socket-state
\* already: the "duplicate socket" assertion holds for every sequence of
\* socket() and close(fd) of any nodes.
C36_NoDuplicateSocket ==
    [][ShimCall("socket") => CallKey \notin DOMAIN host_state]_vars


\* ---- C33 ----

\* C33: removing an address takes it out of the clogged set, so that no
\* address without Endpoint is clogged and an address inserted again is not
\* clogged; and a send between bound addresses that are not clogged is
\* admitted, unless a fault is drawn: after remove and insert, sends from and
\* to the address pass without a call of unclog.
C33_RemovalClearsClog ==
    [][/\ \A a \in Addrs :
              /\ (endpoints[a] # 0 /\ endpoints'[a] = 0) => a \notin clogged'
              /\ (endpoints[a] = 0 /\ endpoints'[a] # 0) => a \notin clogged'
              /\ a \in clogged' => endpoints'[a] # 0
       /\ Len(sent') = Len(sent) + 1 =>
              LET m == sent'[Len(sent')] IN
              ( /\ endpoints[m.dst] # 0
                /\ m.src \notin clogged
                /\ m.dst \notin clogged
                /\ ~m.fault )
                  => /\ msg_count' = msg_count + 1
                     /\ \E tm \in timers' \ timers :
                            /\ tm.ep = endpoints[m.dst]
                            /\ tm.msg.data = Len(sent')
    ]_vars

\* a send to a clogged address was dropped, the address was removed and
\* inserted again, and a later send to it was admitted
C33_Witness ==
    \E i \in 1..Len(sent) : \E j \in (i + 1)..Len(sent) :
        /\ sent[i].clog
        /\ sent[i].ep # 0
        /\ sent[j].dst = sent[i].dst
        /\ sent[j].src = sent[i].src
        /\ Admitted(j)
        /\ sent[j].ep # sent[i].ep
        /\ clogged = {}


\* ---- C34 ----

\* where the sender of receiver r stands in the waiter list of the mailbox
WaiterIndex(mb, r) == CHOOSE i \in 1..Len(mb.registered) : mb.registered[i].tx = r

\* C34: Mailbox::deliver(msg) leaves every waiter with another tag
\* registered and uncompleted, removes waiters with msg's tag only up to and
\* including the first one in the list whose receiver is alive, and leaves
\* the pending messages as they were or appends msg to them.
C34_DeliverFrame ==
    [][Len(delivered') = Len(delivered) + 1 =>
        LET d == delivered'[Len(delivered')]
            old == heap[d.ep]
            new == heap'[d.ep]
            gone == Registered(old) \ Registered(new)
            alive == RegisteredFor(old, d.msg.tag) \cap Live(receivers)
        IN /\ \A r \in Registered(old) :
                  receivers[r].tag # d.msg.tag =>
                      r \in Registered(new) /\ receivers'[r] = receivers[r]
           /\ gone \subseteq RegisteredFor(old, d.msg.tag)
           /\ \A g \in gone : \A w \in alive :
                  WaiterIndex(old, g) <= WaiterIndex(old, w)
           /\ new.msgs = old.msgs \/ new.msgs = Append(old.msgs, d.msg)
    ]_vars


\* ---- C35 ----

\* C35: dropping an Endpoint removes only the mailbox its own bind
\* installed.  When a later Endpoint was bound to the same address of the
\* node, the mailbox of the address is not the dropped handle's: the drop
\* leaves the table and the mailboxes as they are and fails no parked recv.
C35_DropRemovesOwnMailbox ==
    [][( /\ last_call'.op = "drop"
         /\ handles[last_call'.h].open
         /\ ~handles'[last_call'.h].open ) =>
          LET h == last_call'.h IN
          (\E g \in (h + 1)..Len(handles) :
               /\ handles[g].node = handles[h].node
               /\ handles[g].addr = handles[h].addr)
              => /\ sockets' = sockets
                 /\ heap' = heap
                 /\ receivers' = receivers
    ]_vars

=========================================================================
